---- MODULE Spec2Model ----
(***************************************************************************)
(* The teacher-rater Worker (Cloudflare Worker over a D1 store): review    *)
(* submission, token-gated moderation, the public read views and the       *)
(* directory scrape that reconciles the teacher roster.                    *)
(*                                                                         *)
(* The Worker modelled is the one of src/unnamed/part_002, lines 289-740.  *)
(* Every handler is split where the code awaits the store: the code up to  *)
(* an awaited statement is local to the request, a statement is executed   *)
(* atomically by the store, and requests interleave between statements.    *)
(***************************************************************************)
EXTENDS Integers, Sequences, FiniteSets, TLC

VARIABLES
  ADMIN_TOKEN,  \* env.ADMIN_TOKEN: the configured secret, a string ("" when unset)
  teachers,     \* table teachers: row i has id i (AUTOINCREMENT, no DELETE anywhere)
  reviews,      \* table reviews: row i has id i (AUTOINCREMENT, no DELETE anywhere)
  clock,        \* the wall clock read by new Date()
  call          \* the requests in flight: call[c] is the invocation in slot c

vars == <<ADMIN_TOKEN, teachers, reviews, clock, call>>

store == <<teachers, reviews>>

-----------------------------------------------------------------------------
(* Bounds of the model. *)

MaxClients == 2    \* requests handled concurrently
MaxReviews == 2    \* review rows ever inserted
MaxClock == 1      \* the clock takes the values 0..MaxClock

Clients == 1..MaxClients

-----------------------------------------------------------------------------
(* Strings are sequences of one-character strings.  A JSON value of a      *)
(* request body is a tagged record: a string, a number (integers only), a  *)
(* boolean, or none (the field is absent, null or undefined).              *)

JNone == [t |-> "none", s |-> <<>>, n |-> 0]
JStr(s) == [t |-> "str", s |-> s, n |-> 0]
JNum(n) == [t |-> "num", s |-> <<>>, n |-> n]
JBool(b) == [t |-> "bool", s |-> <<>>, n |-> IF b THEN 1 ELSE 0]

WS == {" ", "\t", "\n"}

DigitChars == <<"0", "1", "2", "3", "4", "5", "6", "7", "8", "9">>

IsDigit(ch) == \E d \in 1..10 : DigitChars[d] = ch

DigitVal(ch) == (CHOOSE d \in 1..10 : DigitChars[d] = ch) - 1

Min2(a, b) == IF a < b THEN a ELSE b

Max2(a, b) == IF a > b THEN a ELSE b

\* s without the white space it begins with
TrimLeft(s) ==
  SubSeq(s, Cardinality({i \in 1..Len(s) : \A j \in 1..i : s[j] \in WS}) + 1, Len(s))

\* s without the white space it ends with
TrimRight(s) ==
  SubSeq(s, 1, Len(s) - Cardinality({i \in 1..Len(s) : \A j \in i..Len(s) : s[j] \in WS}))

\* String.prototype.trim
trim(s) == TrimRight(TrimLeft(s))

\* String.prototype.slice(0, n), n >= 0
slice(s, n) == SubSeq(s, 1, Min2(n, Len(s)))

RECURSIVE Digits(_)
Digits(n) ==
  IF n < 10 THEN <<DigitChars[n + 1]>>
  ELSE Digits(n \div 10) \o <<DigitChars[(n % 10) + 1]>>

\* String(v) of a JSON value
JsString(v) ==
  CASE v.t = "str" -> v.s
    [] v.t = "num" -> IF v.n < 0 THEN <<"-">> \o Digits(0 - v.n) ELSE Digits(v.n)
    [] v.t = "bool" -> IF v.n = 1 THEN <<"t", "r", "u", "e">>
                       ELSE <<"f", "a", "l", "s", "e">>
    [] OTHER -> <<"u", "n", "d", "e", "f", "i", "n", "e", "d">>

\* JavaScript truthiness of a JSON value
Truthy(v) ==
  CASE v.t = "str" -> v.s # <<>>
    [] v.t = "num" -> v.n # 0
    [] v.t = "bool" -> v.n = 1
    [] OTHER -> FALSE

RECURSIVE DigitPrefix(_)
DigitPrefix(s) ==
  IF s # <<>> /\ IsDigit(Head(s)) THEN <<Head(s)>> \o DigitPrefix(Tail(s)) ELSE <<>>

RECURSIVE DigitsValue(_)
DigitsValue(ds) ==
  IF ds = <<>> THEN 0
  ELSE 10 * DigitsValue(SubSeq(ds, 1, Len(ds) - 1)) + DigitVal(ds[Len(ds)])

\* Number.parseInt(v, 10): {} is NaN, {k} the integer k.  Leading white space is
\* skipped, a sign is read, then the longest run of digits; what follows is ignored.
parseInt(v) ==
  LET str == TrimLeft(JsString(v))
      signed == str # <<>> /\ Head(str) \in {"-", "+"}
      ds == DigitPrefix(IF signed THEN Tail(str) ELSE str)
  IN  IF ds = <<>> THEN {}
      ELSE IF signed /\ Head(str) = "-" THEN {0 - DigitsValue(ds)}
      ELSE {DigitsValue(ds)}

\* a clampInt that parses and does not clamp
parseWithoutClamp(n, min, max) == parseInt(n)

\* a clampInt that takes what does not parse for the minimum
clampOrMin(n, min, max) ==
  IF parseInt(n) = {} THEN {min} ELSE {Min2(max, Max2(min, x)) : x \in parseInt(n)}

\* clampInt(n, min, max): {} is null, {k} the integer k
clampInt(n, min, max) == {Min2(max, Max2(min, x)) : x \in parseInt(n)}

\* cleanStr(s, maxLen)
cleanStr(s, maxLen) == IF s.t # "str" THEN <<>> ELSE slice(trim(s.s), maxLen)

\* v ?? "" : the value, or the empty string when it is null or undefined
OrEmpty(v) == IF v.t = "none" THEN JStr(<<>>) ELSE v

\* v || "" : the value, or the empty string when it is falsy
OrEmptyIfFalsy(v) == IF Truthy(v) THEN v ELSE JStr(<<>>)

\* a token check that accepts every token once a secret is configured
AnyTokenWhenConfigured(envToken, token) == trim(envToken) # <<>>

\* requireAdminToken(env, token)
requireAdminToken(envToken, token) ==
  LET expected == trim(envToken)
  IN  IF expected = <<>> THEN FALSE
      ELSE trim(JsString(OrEmptyIfFalsy(token))) = expected

-----------------------------------------------------------------------------
(* Responses.  json(data, status) and text(msg, status) build the HTTP     *)
(* response; a field a body does not carry is {} (or "" or <<>>).          *)

NoStats ==
  [review_count |-> {}, avg_overall |-> {}, avg_clarity |-> {},
   avg_difficulty |-> {}, would_take_again_pct |-> {}]

NoData ==
  [ok |-> {}, id |-> {}, updated |-> {}, error |-> "", status |-> "", rows |-> <<>>,
   teacher |-> {}, stats |-> NoStats,
   found |-> {}, upserted |-> {}, pages_visited |-> {}]

json(data, status) == [status |-> status, type |-> "json", text |-> "", data |-> data]

text(msg, status) == [status |-> status, type |-> "text", text |-> msg, data |-> NoData]

NoResp == [status |-> 0, type |-> "", text |-> "", data |-> NoData]

-----------------------------------------------------------------------------
(* The store: the statements the Worker prepares, as the store runs them.  *)

\* The value SQLite compares with (or stores in) an INTEGER column when a text is
\* bound: the integer the text spells, and no integer when it spells none.
SqlInt(s) ==
  IF s # <<>> /\ \A i \in 1..Len(s) : IsDigit(s[i]) THEN {DigitsValue(s)} ELSE {}

\* an existence check that finds a teacher for every id that spells an integer
AnyTeacherExists(ts, idText) == SqlInt(idText) # {}

\* SELECT 1 FROM teachers WHERE id = ?
TeacherExists(ts, idText) == \E i \in 1..Len(ts) : i \in SqlInt(idText)

\* an INSERT that replaces the newest stored review when there is one
ReplaceNewestReview(rs, row) ==
  LET new == [teacher_id |-> CHOOSE t \in SqlInt(row.teacher_id) : TRUE,
              school |-> row.school,
              overall |-> row.overall,
              difficulty |-> row.difficulty,
              clarity |-> row.clarity,
              would_take_again |-> row.would_take_again,
              comment |-> row.comment,
              status |-> "pending",
              created_at |-> row.created_at]
  IN  IF rs = <<>> THEN <<new>> ELSE [rs EXCEPT ![Len(rs)] = new]

\* INSERT INTO reviews (...) VALUES (?, ?, ?, ?, ?, ?, ?, 'pending', ?)
InsertReview(rs, row) ==
  Append(rs,
    [teacher_id |-> CHOOSE t \in SqlInt(row.teacher_id) : TRUE,
     school |-> row.school,
     overall |-> row.overall,
     difficulty |-> row.difficulty,
     clarity |-> row.clarity,
     would_take_again |-> row.would_take_again,
     comment |-> row.comment,
     status |-> "pending",
     created_at |-> row.created_at])

\* the UPDATE without its condition on the current status
UpdateAnyStatus(rs, id, status) ==
  LET hit == {i \in 1..Len(rs) : i = id}
  IN  [rows |-> [i \in 1..Len(rs) |->
                   IF i \in hit THEN [rs[i] EXCEPT !.status = status] ELSE rs[i]],
       changes |-> Cardinality(hit)]

\* the conditional UPDATE, reporting the rows its id matches instead of the rows it
\* changes
UpdateCountingMatches(rs, id, status) ==
  LET hit == {i \in 1..Len(rs) : i = id /\ rs[i].status = "pending"}
  IN  [rows |-> [i \in 1..Len(rs) |->
                   IF i \in hit THEN [rs[i] EXCEPT !.status = status] ELSE rs[i]],
       changes |-> Cardinality({i \in 1..Len(rs) : i = id})]

\* UPDATE reviews SET status = ? WHERE id = ? AND status='pending'
\* rows: the table afterwards; changes: the number of rows the statement changed
UpdateReviewStatus(rs, id, status) ==
  LET hit == {i \in 1..Len(rs) : i = id /\ rs[i].status = "pending"}
  IN  [rows |-> [i \in 1..Len(rs) |->
                   IF i \in hit THEN [rs[i] EXCEPT !.status = status] ELSE rs[i]],
       changes |-> Cardinality(hit)]

\* ORDER BY created_at DESC over the rows ids: the orders the store may deliver
\* them in (as sequences of ids).  Rows of equal created_at have no order of their
\* own, so every order of them is a possible result.  The rows are split at the
\* median of their created_at values, the newer half before the older half, down
\* to rows of one created_at, which come in every order.
RECURSIVE NewestFirst(_, _)
NewestFirst(rs, ids) ==
  LET stamps == {rs[i].created_at : i \in ids}
  IN  IF ids = {} THEN {<<>>}
      ELSE IF Cardinality(stamps) = 1
      THEN UNION {{<<i>> \o rest : rest \in NewestFirst(rs, ids \ {i})} : i \in ids}
      ELSE LET mid == CHOOSE m \in stamps :
                        Cardinality({s \in stamps : s >= m}) = Cardinality(stamps) \div 2
               newer == {i \in ids : rs[i].created_at >= mid}
           IN  {a \o b : a \in NewestFirst(rs, newer),
                         b \in NewestFirst(rs, ids \ newer)}

\* a query without its LIMIT
Unlimited(seq, n) == seq

\* LIMIT n
Limit(seq, n) == SubSeq(seq, 1, Min2(n, Len(seq)))

PublicReviewsLimit == 50

\* the public SELECT without its condition on the status
SelectReviewsOfAnyStatus(rs, idText) ==
  {Limit(o, PublicReviewsLimit) :
     o \in NewestFirst(rs, {i \in 1..Len(rs) : rs[i].teacher_id \in SqlInt(idText)})}

\* SELECT overall, ... FROM reviews WHERE teacher_id = ? AND status='approved'
\* ORDER BY created_at DESC LIMIT 50: the possible results, as sequences of the ids
\* of the rows selected
SelectApprovedReviews(rs, idText) ==
  {Limit(o, PublicReviewsLimit) :
     o \in NewestFirst(rs, {i \in 1..Len(rs) :
                              rs[i].teacher_id \in SqlInt(idText)
                              /\ rs[i].status = "approved"})}

RECURSIVE SumOver(_, _, _)
SumOver(rs, ids, col) ==
  IF ids = {} THEN 0
  ELSE LET i == CHOOSE j \in ids : TRUE
       IN  rs[i][col] + SumOver(rs, ids \ {i}, col)

\* an average that is 0 over no rows
AvgOrZero(rs, ids, col) ==
  IF ids = {} THEN {[num |-> 0, den |-> 1]}
  ELSE {[num |-> SumOver(rs, ids, col), den |-> Cardinality(ids)]}

\* AVG(col) over the rows ids: {} is NULL, {f} the fraction f.num / f.den
Avg(rs, ids, col) ==
  IF ids = {} THEN {}
  ELSE {[num |-> SumOver(rs, ids, col), den |-> Cardinality(ids)]}

\* x * 100.0 of a nullable fraction
Times100(x) == {[num |-> 100 * f.num, den |-> f.den] : f \in x}

\* the aggregation without its condition on the status
SelectStatsOfAnyStatus(rs, idText) ==
  LET ids == {i \in 1..Len(rs) : rs[i].teacher_id \in SqlInt(idText)}
  IN  [review_count |-> {Cardinality(ids)},
       avg_overall |-> Avg(rs, ids, "overall"),
       avg_clarity |-> Avg(rs, ids, "clarity"),
       avg_difficulty |-> Avg(rs, ids, "difficulty"),
       would_take_again_pct |-> Times100(Avg(rs, ids, "would_take_again"))]

\* SELECT COUNT(*) AS review_count, AVG(overall) AS avg_overall, AVG(clarity) AS
\* avg_clarity, AVG(difficulty) AS avg_difficulty, AVG(would_take_again) * 100.0 AS
\* would_take_again_pct FROM reviews WHERE teacher_id = ? AND status='approved'
SelectTeacherStats(rs, idText) ==
  LET ids == {i \in 1..Len(rs) :
                rs[i].teacher_id \in SqlInt(idText) /\ rs[i].status = "approved"}
  IN  [review_count |-> {Cardinality(ids)},
       avg_overall |-> Avg(rs, ids, "overall"),
       avg_clarity |-> Avg(rs, ids, "clarity"),
       avg_difficulty |-> Avg(rs, ids, "difficulty"),
       would_take_again_pct |-> Times100(Avg(rs, ids, "would_take_again"))]

\* SELECT id, name, school FROM teachers WHERE id = ?   ({} when there is no row)
SelectTeacher(ts, idText) == {i \in 1..Len(ts) : i \in SqlInt(idText)}

-----------------------------------------------------------------------------
(* The Name Classifier. *)

UpperChars == <<"A", "B", "C", "D", "E", "F", "G", "H", "I", "J", "K", "L", "M", "N", "O", "P", "Q", "R", "S", "T", "U", "V", "W", "X", "Y", "Z">>

LowerChars == <<"a", "b", "c", "d", "e", "f", "g", "h", "i", "j", "k", "l", "m", "n", "o", "p", "q", "r", "s", "t", "u", "v", "w", "x", "y", "z">>

Index26 == 1..26

IsUpper(ch) == \E k \in Index26 : UpperChars[k] = ch

IsLower(ch) == \E k \in Index26 : LowerChars[k] = ch

\* String.prototype.toLowerCase, one character
LowerChar(ch) ==
  IF IsUpper(ch) THEN LowerChars[CHOOSE k \in Index26 : UpperChars[k] = ch] ELSE ch

toLowerCase(s) == [i \in 1..Len(s) |-> LowerChar(s[i])]

\* a character, as opposed to the mark "" of a dropped one
IsChar(ch) == ch # ""

\* replace(/\s+/g, " "): the first character of a run of white space becomes a
\* space and the rest of the run is dropped
CollapseWs(s) ==
  SelectSeq([i \in 1..Len(s) |->
               IF s[i] \notin WS THEN s[i]
               ELSE IF i = 1 \/ s[i - 1] \notin WS THEN " "
               ELSE ""],
            IsChar)

\* a normalization that collapses whitespace and does not trim
collapseWithoutTrim(s) == CollapseWs(s)

\* normalizeName(s)
normalizeName(s) == trim(CollapseWs(s))

\* split(" "): the pieces between the spaces of s; cur is what has been read of
\* the first piece
SplitOnSpace(s, cur) ==
  LET cuts == {i \in 1..Len(s) : s[i] = " "}
      cut(k) == IF k = 0 THEN 0
                ELSE IF k = Cardinality(cuts) + 1 THEN Len(s) + 1
                ELSE CHOOSE i \in cuts : Cardinality({j \in cuts : j <= i}) = k
  IN  [k \in 1..(Cardinality(cuts) + 1) |->
         (IF k = 1 THEN cur ELSE <<>>) \o SubSeq(s, cut(k - 1) + 1, cut(k) - 1)]

IsNonEmpty(x) == x # <<>>

\* name.split(" ").filter(Boolean)
NameParts(name) == SelectSeq(SplitOnSpace(name, <<>>), IsNonEmpty)

\* String.prototype.includes
includes(hay, needle) ==
  \E i \in 0..(Len(hay) - Len(needle)) : SubSeq(hay, i + 1, i + Len(needle)) = needle

\* the list bad of looksLikePersonName
bad ==
  <<<<"S", "k", "y", "l", "i", "n", "e">>,
    <<"H", "i", "g", "h">>,
    <<"S", "c", "h", "o", "o", "l">>,
    <<"S", "t", "a", "f", "f">>,
    <<"D", "i", "r", "e", "c", "t", "o", "r", "y">>,
    <<"S", "e", "a", "r", "c", "h">>,
    <<"P", "h", "o", "n", "e">>,
    <<"E", "m", "a", "i", "l">>,
    <<"L", "o", "c", "a", "t", "i", "o", "n", "s">>,
    <<"T", "i", "t", "l", "e", "s">>,
    <<"H", "o", "m", "e">>,
    <<"I", "s", "s", "a", "q", "u", "a", "h">>,
    <<"D", "i", "s", "t", "r", "i", "c", "t">>,
    <<"W", "a", "s", "h", "i", "n", "g", "t", "o", "n">>>>

NameMinLen == 5

NameMaxLen == 40

UpperRun == 4

\* /^[A-Za-z .'-]+$/
NameChar(ch) == IsUpper(ch) \/ IsLower(ch) \/ ch \in {" ", ".", "'", "-"}

\* /[A-Z]{4,}/
HasUpperRun(name) ==
  \E i \in 1..(Len(name) - UpperRun + 1) : \A k \in 0..(UpperRun - 1) : IsUpper(name[i + k])

\* a classifier that does not count the words of the name
looksLikeNameOfAnyParts(fullName) ==
  LET name == normalizeName(fullName)
      lower == toLowerCase(name)
  IN  /\ name # <<>>
      /\ ~(Len(name) < NameMinLen \/ Len(name) > NameMaxLen)
      /\ \A i \in 1..Len(name) : NameChar(name[i])
      /\ \A w \in 1..Len(bad) : ~includes(lower, toLowerCase(bad[w]))
      /\ ~HasUpperRun(name)

\* looksLikePersonName(fullName)
looksLikePersonName(fullName) ==
  LET name == normalizeName(fullName)
      parts == NameParts(name)
      lower == toLowerCase(name)
  IN  /\ name # <<>>
      /\ ~(Len(name) < NameMinLen \/ Len(name) > NameMaxLen)
      /\ \A i \in 1..Len(name) : NameChar(name[i])
      /\ ~(Len(parts) < 2 \/ Len(parts) > 3)
      /\ \A w \in 1..Len(bad) : ~includes(lower, toLowerCase(bad[w]))
      /\ ~HasUpperRun(name)

-----------------------------------------------------------------------------
(* The Directory Scraper.  A URL is a record of its origin, path and query; *)
(* an href is the same record with origin "" when it is relative.  The web  *)
(* is a function from URLs to pages: the texts of the name elements of the  *)
(* page and the hrefs of its links, both in document order.  A URL outside  *)
(* the function's domain answers with a non-success status.                *)

GroupQuery == "const_search_group_ids=289&const_search_role_ids=1"

\* the queries of the directory's further result pages, page 2 first
PageQueries ==
  <<"const_search_group_ids=289&const_search_page=2",
    "const_search_group_ids=289&const_search_page=3",
    "const_search_group_ids=289&const_search_page=4",
    "const_search_group_ids=289&const_search_page=5",
    "const_search_group_ids=289&const_search_page=6",
    "const_search_group_ids=289&const_search_page=7",
    "const_search_group_ids=289&const_search_page=8",
    "const_search_group_ids=289&const_search_page=9",
    "const_search_group_ids=289&const_search_page=10",
    "const_search_group_ids=289&const_search_page=11",
    "const_search_group_ids=289&const_search_page=12">>

\* buildSkylineDirectoryUrl()
buildSkylineDirectoryUrl ==
  [origin |-> "https://skyline.isd411.org", path |-> "/staff", query |-> GroupQuery]

\* href.includes("/staff"), over the paths and queries of the model's pages
IncludesStaff(href) ==
  href.path \in {"/staff", "/staff/archive"} \/ href.query \in {"next=/staff"}

\* href.includes("const_search_group_ids"), over the queries of the model's pages
IncludesGroupIds(href) ==
  href.query \in {GroupQuery} \cup {PageQueries[k] : k \in DOMAIN PageQueries}

\* new URL(href, pageUrl)
ResolveUrl(href, pageUrl) ==
  IF href.origin = "" THEN [href EXCEPT !.origin = pageUrl.origin] ELSE href

\* the elements of a sequence in order of first occurrence (a JavaScript Set
\* filled from the sequence)
RECURSIVE Dedup(_, _)
Dedup(seq, acc) ==
  IF seq = <<>> THEN acc
  ELSE Dedup(Tail(seq),
             IF \E i \in 1..Len(acc) : acc[i] = Head(seq) THEN acc
             ELSE Append(acc, Head(seq)))

NoPage == [ok |-> FALSE, texts |-> <<>>, hrefs |-> <<>>]

\* fetch(pageUrl)
FetchPage(web, url) == IF url \in DOMAIN web THEN web[url] ELSE NoPage

KeepHref(href) == IncludesStaff(href) /\ IncludesGroupIds(href)

\* a page scraper that takes a page that does not answer for an empty page
scrapeOnePageLeniently(web, pageUrl) ==
  LET res == FetchPage(web, pageUrl)
      candidates == [i \in 1..Len(res.texts) |-> normalizeName(res.texts[i])]
      names == Dedup(SelectSeq(candidates, looksLikePersonName), <<>>)
      pageLinks == Dedup(SelectSeq(res.hrefs, KeepHref), <<>>)
  IN  [threw |-> FALSE,
       names |-> names,
       pageUrls |-> [i \in 1..Len(pageLinks) |-> ResolveUrl(pageLinks[i], pageUrl)]]

\* scrapeOneDirectoryPage(pageUrl): threw when the fetch is not ok
scrapeOneDirectoryPage(web, pageUrl) ==
  LET res == FetchPage(web, pageUrl)
      candidates == [i \in 1..Len(res.texts) |-> normalizeName(res.texts[i])]
      names == Dedup(SelectSeq(candidates, looksLikePersonName), <<>>)
      pageLinks == Dedup(SelectSeq(res.hrefs, KeepHref), <<>>)
  IN  [threw |-> ~res.ok,
       names |-> names,
       pageUrls |-> [i \in 1..Len(pageLinks) |-> ResolveUrl(pageLinks[i], pageUrl)]]

maxPages == 10

RECURSIVE CrawlLoopWithoutCap(_, _, _, _)
\* the loop without its bound on the pages seen
CrawlLoopWithoutCap(web, toVisit, seenPages, allNames) ==
  IF ~(Len(toVisit) > 0)
  THEN [threw |-> FALSE, names |-> allNames, pages_visited |-> Cardinality(seenPages),
        fetched |-> <<>>]
  ELSE LET url == Head(toVisit)
           rest == Tail(toVisit)
       IN  IF url \in seenPages THEN CrawlLoopWithoutCap(web, rest, seenPages, allNames)
           ELSE LET page == scrapeOneDirectoryPage(web, url)
                    seen2 == seenPages \cup {url}
                    IsNew(p) == p \notin seen2
                    further == CrawlLoopWithoutCap(web, rest \o SelectSeq(page.pageUrls, IsNew),
                                                   seen2, Dedup(page.names, allNames))
                IN  IF page.threw
                    THEN [threw |-> TRUE, names |-> <<>>, pages_visited |-> 0,
                          fetched |-> <<url>>]
                    ELSE [further EXCEPT !.fetched = <<url>> \o further.fetched]

RECURSIVE CrawlLoop(_, _, _, _)
\* the while loop of scrapeSkylineStaffDirectory; fetched lists the URLs the loop
\* passed to fetch, in order
CrawlLoop(web, toVisit, seenPages, allNames) ==
  IF ~(Len(toVisit) > 0 /\ Cardinality(seenPages) < maxPages)
  THEN [threw |-> FALSE, names |-> allNames, pages_visited |-> Cardinality(seenPages),
        fetched |-> <<>>]
  ELSE LET url == Head(toVisit)
           rest == Tail(toVisit)
       IN  IF url \in seenPages THEN CrawlLoop(web, rest, seenPages, allNames)
           ELSE LET page == scrapeOneDirectoryPage(web, url)
                    seen2 == seenPages \cup {url}
                    IsNew(p) == p \notin seen2
                    further == CrawlLoop(web, rest \o SelectSeq(page.pageUrls, IsNew),
                                         seen2, Dedup(page.names, allNames))
                IN  IF page.threw
                    THEN [threw |-> TRUE, names |-> <<>>, pages_visited |-> 0,
                          fetched |-> <<url>>]
                    ELSE [further EXCEPT !.fetched = <<url>> \o further.fetched]

\* scrapeSkylineStaffDirectory()
scrapeSkylineStaffDirectory(web) ==
  CrawlLoop(web, <<buildSkylineDirectoryUrl>>, {}, <<>>)

\* the INSERT without its ON CONFLICT clause, on a table without the unique index
InsertTeacher(ts, name, school, source_url, now) ==
  Append(ts, [name |-> name, school |-> school, source_url |-> source_url,
              created_at |-> now, updated_at |-> now])

\* an upsert that on conflict rewrites the whole row
ReplaceTeacher(ts, name, school, source_url, now) ==
  IF \E i \in 1..Len(ts) : ts[i].name = name /\ ts[i].school = school
  THEN [i \in 1..Len(ts) |->
          IF ts[i].name = name /\ ts[i].school = school
          THEN [name |-> name, school |-> school, source_url |-> source_url,
                created_at |-> now, updated_at |-> now]
          ELSE ts[i]]
  ELSE Append(ts, [name |-> name, school |-> school, source_url |-> source_url,
                   created_at |-> now, updated_at |-> now])

\* INSERT INTO teachers (name, school, source_url, created_at, updated_at)
\* VALUES (?, ?, ?, ?, ?) ON CONFLICT(name, school) DO UPDATE SET
\* source_url=excluded.source_url, updated_at=excluded.updated_at
UpsertTeacher(ts, name, school, source_url, now) ==
  IF \E i \in 1..Len(ts) : ts[i].name = name /\ ts[i].school = school
  THEN [i \in 1..Len(ts) |->
          IF ts[i].name = name /\ ts[i].school = school
          THEN [ts[i] EXCEPT !.source_url = source_url, !.updated_at = now]
          ELSE ts[i]]
  ELSE Append(ts, [name |-> name, school |-> school, source_url |-> source_url,
                   created_at |-> now, updated_at |-> now])

ScrapeSchool == "Skyline High School"

\* the names of runScrapeAll's loop that reach upsertTeacher, in order
RECURSIVE SkipRejected(_)
SkipRejected(names) ==
  IF names # <<>> /\ ~looksLikePersonName(Head(names)) THEN SkipRejected(Tail(names))
  ELSE names

-----------------------------------------------------------------------------
(* The pages the directory may serve. *)

AnnLee == <<"A", "n", "n", " ", "L", "e", "e">>

BoRayRaw == <<"B", "o", " ", " ", "R", "a", "y">>

StaffDirectory == <<"S", "t", "a", "f", "f", " ", "D", "i", "r", "e", "c", "t", "o", "r", "y">>

NextHref == [origin |-> "", path |-> "/staff",
             query |-> "const_search_group_ids=289&const_search_page=2"]

HomeHref == [origin |-> "", path |-> "/", query |-> ""]

BackHref == [origin |-> "", path |-> "/staff", query |-> GroupQuery]

PageTwoUrl == ResolveUrl(NextHref, buildSkylineDirectoryUrl)

WebDown == [u \in {} |-> NoPage]

WebOne ==
  [u \in {buildSkylineDirectoryUrl} |->
     [ok |-> TRUE, texts |-> <<AnnLee, StaffDirectory>>, hrefs |-> <<HomeHref>>]]

WebTwo ==
  [u \in {buildSkylineDirectoryUrl, PageTwoUrl} |->
     IF u = PageTwoUrl
     THEN [ok |-> TRUE, texts |-> <<BoRayRaw, AnnLee>>, hrefs |-> <<BackHref, HomeHref>>]
     ELSE [ok |-> TRUE, texts |-> <<AnnLee>>, hrefs |-> <<HomeHref, NextHref, NextHref>>]]

Webs == {WebDown, WebOne, WebTwo}

\* the URL of the k-th further result page
PageUrl(k) == [origin |-> buildSkylineDirectoryUrl.origin, path |-> "/staff",
               query |-> PageQueries[k]]

PageHref(k) == [origin |-> "", path |-> "/staff", query |-> PageQueries[k]]

\* the second page does not answer
WebBroken ==
  [u \in {buildSkylineDirectoryUrl} |->
     [ok |-> TRUE, texts |-> <<AnnLee>>, hrefs |-> <<NextHref>>]]

\* both pages link to themselves and to each other
WebLoop ==
  [u \in {buildSkylineDirectoryUrl, PageTwoUrl} |->
     IF u = PageTwoUrl
     THEN [ok |-> TRUE, texts |-> <<BoRayRaw>>, hrefs |-> <<NextHref, BackHref>>]
     ELSE [ok |-> TRUE, texts |-> <<AnnLee>>, hrefs |-> <<BackHref, NextHref>>]]

\* every page links to a page not seen before
WebChain ==
  [u \in {buildSkylineDirectoryUrl} \cup {PageUrl(k) : k \in DOMAIN PageQueries} |->
     IF u = buildSkylineDirectoryUrl
     THEN [ok |-> TRUE, texts |-> <<AnnLee>>, hrefs |-> <<PageHref(1)>>]
     ELSE LET k == CHOOSE j \in DOMAIN PageQueries : PageUrl(j) = u
          IN  [ok |-> TRUE, texts |-> <<>>,
               hrefs |-> IF k < Len(PageQueries) THEN <<PageHref(k + 1)>> ELSE <<>>]]

\* an absolute link to a results page on another host
AwayHref == [origin |-> "https://staff.example.net", path |-> "/staff",
             query |-> PageQueries[1]]

\* the first page links to a results page that another host serves
WebAway ==
  [u \in {buildSkylineDirectoryUrl, AwayHref} |->
     IF u = AwayHref
     THEN [ok |-> TRUE, texts |-> <<BoRayRaw>>, hrefs |-> <<>>]
     ELSE [ok |-> TRUE, texts |-> <<AnnLee>>, hrefs |-> <<HomeHref, AwayHref>>]]

RosterWebs == {WebDown, WebOne, WebTwo, WebBroken, WebLoop, WebChain, WebAway}

-----------------------------------------------------------------------------
(* Requests in flight.  call[c].pc is the statement the request waits for   *)
(* ("idle": the slot is free; "respond": the handler has returned resp).    *)
(* req is the body the caller sent and seen the status the addressed row   *)
(* had when the request arrived; names are the names the crawl of a scrape *)
(* returned and before is the number of teachers stored when it returned.  *)
(* These four are kept for the record, no action reads them.               *)

NoRow ==
  [teacher_id |-> <<>>, school |-> <<>>, overall |-> 0, difficulty |-> 0,
   clarity |-> 0, would_take_again |-> 0, comment |-> <<>>, created_at |-> 0]

NoReq == [token |-> JNone]

Idle ==
  [pc |-> "idle", op |-> "", req |-> NoReq, id |-> 0, seen |-> "", row |-> NoRow,
   todo |-> <<>>, now |-> 0, found |-> 0, upserted |-> 0, pages |-> 0,
   names |-> <<>>, before |-> 0, resp |-> NoResp]

Responding(op, req, r) ==
  [Idle EXCEPT !.pc = "respond", !.op = op, !.req = req, !.resp = r]

\* requests take the lowest free slot (the slots are interchangeable)
FreeSlot(c) ==
  /\ call[c].pc = "idle"
  /\ \A d \in Clients : d < c => call[d].pc # "idle"

StatusNow(rs, id) == IF id \in 1..Len(rs) THEN rs[id].status ELSE "none"

MaxReviewId == 1000000000

SchoolMaxLen == 120

CommentMaxLen == 800

RatingMin == 1

RatingMax == 5

PendingDefaultLimit == 50

PendingMaxLimit == 200

-----------------------------------------------------------------------------
(* POST /api/admin/approve and POST /api/admin/reject *)

StatusOf(op) == IF op = "approve" THEN "approved" ELSE "rejected"

\* the handler up to the UPDATE: the token check, then setReviewStatus up to the
\* statement
ModerateLocal(op, body) ==
  IF ~requireAdminToken(ADMIN_TOKEN, body.token)
  THEN Responding(op, body, text("Unauthorized", 401))
  ELSE LET id == clampInt(body.id, 1, MaxReviewId)
       IN  IF id = {}
           THEN Responding(op, body,
                           json([NoData EXCEPT !.ok = {FALSE},
                                               !.error = "Invalid review id"], 400))
           ELSE LET k == CHOOSE x \in id : TRUE
                IN  [Idle EXCEPT !.pc = "update", !.op = op, !.req = body,
                                 !.id = k,
                                 !.seen = StatusNow(reviews, k)]

ModerateBegin(c, op, body) ==
  /\ FreeSlot(c)
  /\ call' = [call EXCEPT ![c] = ModerateLocal(op, body)]
  /\ UNCHANGED <<ADMIN_TOKEN, teachers, reviews, clock>>

\* the store runs the UPDATE; setReviewStatus returns {ok: true, updated: changes}
\* and the handler answers json(out, 200)
ModerateExec(c) ==
  /\ call[c].pc = "update"
  /\ LET u == UpdateReviewStatus(reviews, call[c].id, StatusOf(call[c].op))
     IN  /\ reviews' = u.rows
         /\ call' = [call EXCEPT
                       ![c].pc = "respond",
                       ![c].resp = json([NoData EXCEPT !.ok = {TRUE},
                                                       !.updated = {u.changes}], 200)]
  /\ UNCHANGED <<ADMIN_TOKEN, teachers, clock>>

-----------------------------------------------------------------------------
(* POST /api/reviews *)

\* the handler up to the SELECT: the fields are read and validated
SubmitLocal(body) ==
  LET teacher_id == trim(JsString(OrEmpty(body.teacher_id)))
      school == cleanStr(OrEmpty(body.school), SchoolMaxLen)
      overall == clampInt(body.overall, RatingMin, RatingMax)
      difficulty == clampInt(body.difficulty, RatingMin, RatingMax)
      clarity == clampInt(body.clarity, RatingMin, RatingMax)
      would_take_again == IF Truthy(body.would_take_again) THEN 1 ELSE 0
      comment == cleanStr(OrEmpty(body.comment), CommentMaxLen)
  IN  IF teacher_id = <<>>
      THEN Responding("submit", body, text("Missing teacher_id", 400))
      ELSE IF school = <<>> THEN Responding("submit", body, text("Missing school", 400))
      ELSE IF overall = {} \/ difficulty = {} \/ clarity = {}
      THEN Responding("submit", body, text("Ratings must be 1-5", 400))
      ELSE [Idle EXCEPT
              !.pc = "exists", !.op = "submit", !.req = body,
              !.row = [teacher_id |-> teacher_id,
                       school |-> school,
                       overall |-> CHOOSE x \in overall : TRUE,
                       difficulty |-> CHOOSE x \in difficulty : TRUE,
                       clarity |-> CHOOSE x \in clarity : TRUE,
                       would_take_again |-> would_take_again,
                       comment |-> comment,
                       created_at |-> 0]]

\* submissions in flight that may still insert a row
Inserting == {d \in Clients : call[d].pc \in {"exists", "insert"}}

\* a handler that stores the submission before it validates it
SubmitStoringFirst(c, body) ==
  /\ FreeSlot(c)
  /\ Len(reviews) + Cardinality(Inserting) < MaxReviews
  /\ call' = [call EXCEPT ![c] = SubmitLocal(body)]
  /\ reviews' = InsertReview(reviews, [NoRow EXCEPT !.teacher_id = <<"1">>])
  /\ UNCHANGED <<ADMIN_TOKEN, teachers, clock>>

SubmitBegin(c, body) ==
  /\ FreeSlot(c)
  /\ Len(reviews) + Cardinality(Inserting) < MaxReviews
  /\ call' = [call EXCEPT ![c] = SubmitLocal(body)]
  /\ UNCHANGED <<ADMIN_TOKEN, teachers, reviews, clock>>

\* the store runs SELECT 1 FROM teachers WHERE id = ?; the handler answers 404 or
\* reads the clock and prepares the INSERT
SubmitExists(c) ==
  /\ call[c].pc = "exists"
  /\ call' = [call EXCEPT ![c] =
                IF ~TeacherExists(teachers, call[c].row.teacher_id)
                THEN Responding("submit", call[c].req, text("Teacher not found", 404))
                ELSE [call[c] EXCEPT !.pc = "insert", !.row.created_at = clock]]
  /\ UNCHANGED <<ADMIN_TOKEN, teachers, reviews, clock>>

\* the store runs the INSERT; the handler answers 201
SubmitInsert(c) ==
  /\ call[c].pc = "insert"
  /\ reviews' = InsertReview(reviews, call[c].row)
  /\ call' = [call EXCEPT ![c] =
                Responding("submit", call[c].req,
                           json([NoData EXCEPT !.ok = {TRUE},
                                               !.status = "pending"], 201))]
  /\ UNCHANGED <<ADMIN_TOKEN, teachers, clock>>

-----------------------------------------------------------------------------
(* The read endpoints.  Each runs its statements and answers in one step.  *)

\* GET /api/teacher?id=
TeacherResponse(idText) ==
  IF idText = <<>> THEN text("Missing id", 400)
  ELSE IF SelectTeacher(teachers, idText) = {} THEN text("Not found", 404)
  ELSE json([NoData EXCEPT !.teacher = SelectTeacher(teachers, idText),
                           !.stats = SelectTeacherStats(reviews, idText)], 200)

GetTeacher(c, idText) ==
  /\ FreeSlot(c)
  /\ call' = [call EXCEPT ![c] = Responding("teacher", NoReq, TeacherResponse(idText))]
  /\ UNCHANGED <<ADMIN_TOKEN, teachers, reviews, clock>>

\* GET /api/reviews?teacher_id= : the possible responses
ReviewsResponses(idText) ==
  IF idText = <<>> THEN {text("Missing teacher_id", 400)}
  ELSE {json([NoData EXCEPT !.rows = rows], 200) :
          rows \in SelectApprovedReviews(reviews, idText)}

GetReviews(c, idText) ==
  /\ FreeSlot(c)
  /\ \E r \in ReviewsResponses(idText) :
       call' = [call EXCEPT ![c] = Responding("reviews", NoReq, r)]
  /\ UNCHANGED <<ADMIN_TOKEN, teachers, reviews, clock>>

\* the teacher that joins review i ON t.id = r.teacher_id: {} when none does
JoinedTeacher(ts, rs, i) == {t \in 1..Len(ts) : t = rs[i].teacher_id}

\* reviews r JOIN teachers t ON t.id = r.teacher_id: the reviews of the join
InnerJoin(ts, rs) == {i \in 1..Len(rs) : JoinedTeacher(ts, rs, i) # {}}

\* reviews r LEFT JOIN teachers t ON t.id = r.teacher_id: the reviews of the join
\* (a review no teacher joins is kept, with a NULL teacher_name)
LeftJoin(ts, rs) ==
  {i \in 1..Len(rs) : Cardinality(JoinedTeacher(ts, rs, i)) \in {0, 1}}

\* SELECT r.id, ..., t.name AS teacher_name, ... FROM reviews r LEFT JOIN teachers t
\* ON t.id = r.teacher_id WHERE r.status='pending' ORDER BY r.created_at DESC LIMIT ?
SelectPendingReviews(ts, rs, lim) ==
  {Limit(o, lim) :
     o \in NewestFirst(rs, {i \in LeftJoin(ts, rs) : rs[i].status = "pending"})}

\* getPendingReviews(env, limit): the possible results
getPendingReviews(ts, rs, limit) ==
  LET clamped == clampInt(limit, 1, PendingMaxLimit)
      lim == IF clamped = {} THEN PendingDefaultLimit ELSE CHOOSE x \in clamped : TRUE
  IN  SelectPendingReviews(ts, rs, lim)

\* POST /api/admin/pending : the possible responses
PendingResponses(body) ==
  IF ~requireAdminToken(ADMIN_TOKEN, body.token) THEN {text("Unauthorized", 401)}
  ELSE {json([NoData EXCEPT !.ok = {TRUE}, !.rows = rows], 200) :
          rows \in getPendingReviews(teachers, reviews,
                                     IF body.limit.t = "none" THEN JNum(PendingDefaultLimit)
                                     ELSE body.limit)}

AdminPending(c, body) ==
  /\ FreeSlot(c)
  /\ \E r \in PendingResponses(body) :
       call' = [call EXCEPT ![c] = Responding("pending", body, r)]
  /\ UNCHANGED <<ADMIN_TOKEN, teachers, reviews, clock>>

-----------------------------------------------------------------------------
(* GET /api/top of the Worker of rate.js, which has the endpoints above and *)
(* this one.  A row of the result is the teacher's id, name and school, the *)
(* count of the teacher's approved reviews and ROUND(AVG(overall), 2), kept *)
(* in hundredths.                                                          *)

TopDefaultLimit == 10

TopMaxLimit == 50

\* the characters of the model's names in the order of their bytes
ByteOrder == <<" ", "'", "-", ".">> \o UpperChars \o LowerChars

ByteRank(ch) == CHOOSE k \in 1..Len(ByteOrder) : ByteOrder[k] = ch

RECURSIVE NameBefore(_, _)
\* a < b as the store compares texts (BINARY collation)
NameBefore(a, b) ==
  IF b = <<>> THEN FALSE
  ELSE IF a = <<>> THEN TRUE
  ELSE IF Head(a) = Head(b) THEN NameBefore(Tail(a), Tail(b))
  ELSE ByteRank(Head(a)) < ByteRank(Head(b))

\* ROUND(x, 2) of the fraction f >= 0, in hundredths
Round2(f) == (200 * f.num + f.den) \div (2 * f.den)

\* the reviews of teacher t whatever their status
ReviewsOfAnyStatus(rs, t) == {i \in 1..Len(rs) : rs[i].teacher_id = t}

\* the reviews that join teacher t: r.teacher_id = t.id, r.status = 'approved'
ApprovedReviewsOf(rs, t) ==
  {i \in 1..Len(rs) : rs[i].teacher_id = t /\ rs[i].status = "approved"}

\* FROM teachers t JOIN reviews r ON r.teacher_id = t.id WHERE r.status =
\* 'approved' GROUP BY t.id, t.name, t.school HAVING COUNT(r.id) >= 1
TopGroups(ts, rs) ==
  {[id |-> t, name |-> ts[t].name, school |-> ts[t].school,
    review_count |-> Cardinality(ApprovedReviewsOf(rs, t)),
    avg_overall |-> Round2(CHOOSE f \in Avg(rs, ApprovedReviewsOf(rs, t), "overall") : TRUE)] :
     t \in {u \in 1..Len(ts) : Cardinality(ApprovedReviewsOf(rs, u)) >= 1}}

\* ORDER BY avg_overall DESC, review_count DESC, t.name ASC: a sorts before b
TopBefore(a, b) ==
  \/ a.avg_overall > b.avg_overall
  \/ a.avg_overall = b.avg_overall /\ a.review_count > b.review_count
  \/ /\ a.avg_overall = b.avg_overall /\ a.review_count = b.review_count
     /\ NameBefore(a.name, b.name)

RECURSIVE TopOrders(_)
\* the orders the store may deliver the rows in: the rows are split at a median
\* row, those that sort before it first and those that sort after it last, down to
\* rows none of which sorts before another, which come in every order
TopOrders(rows) ==
  IF rows = {} THEN {<<>>}
  ELSE IF \A x, y \in rows : ~TopBefore(x, y)
  THEN UNION {{<<a>> \o rest : rest \in TopOrders(rows \ {a})} : a \in rows}
  ELSE LET mid == CHOOSE m \in rows :
                    /\ 2 * Cardinality({x \in rows : TopBefore(x, m)}) <= Cardinality(rows)
                    /\ 2 * Cardinality({x \in rows : TopBefore(m, x)}) <= Cardinality(rows)
               first == {x \in rows : TopBefore(x, mid)}
               last == {x \in rows : TopBefore(mid, x)}
           IN  {a \o b \o c : a \in TopOrders(first),
                              b \in TopOrders(rows \ (first \cup last)),
                              c \in TopOrders(last)}

\* getTopTeachers(env, limit): the possible results
getTopTeachers(ts, rs, limit) ==
  LET clamped == clampInt(limit, 1, TopMaxLimit)
      lim == IF clamped = {} THEN TopDefaultLimit ELSE CHOOSE x \in clamped : TRUE
  IN  {Limit(o, lim) : o \in TopOrders(TopGroups(ts, rs))}

\* GET /api/top?limit= : the possible responses
TopResponses(limit) ==
  {json([NoData EXCEPT !.ok = {TRUE}, !.rows = rows], 200) :
     rows \in getTopTeachers(teachers, reviews,
                             IF limit.t = "none" THEN JStr(Digits(TopDefaultLimit))
                             ELSE limit)}

GetTop(c, limit) ==
  /\ FreeSlot(c)
  /\ \E r \in TopResponses(limit) :
       call' = [call EXCEPT ![c] = Responding("top", [limit |-> limit], r)]
  /\ UNCHANGED <<ADMIN_TOKEN, teachers, reviews, clock>>

-----------------------------------------------------------------------------
(* POST /api/admin/scrape and the scheduled run *)

\* the return value of runScrapeAll, answered json(result)
ScrapeSummary(found, upserted, pages) ==
  json([NoData EXCEPT !.ok = {TRUE}, !.found = {found}, !.upserted = {upserted},
                      !.pages_visited = {pages}], 200)

\* the catch of the scrape endpoint
ScrapeFailure ==
  json([NoData EXCEPT !.ok = {FALSE}, !.error = "Directory fetch failed"], 500)

\* the handler's promise rejects: an exception has left the handler
Escaped(op, req) == [Idle EXCEPT !.pc = "threw", !.op = op, !.req = req]

\* a run that throws its failure on, out of the endpoint and out of scheduled()
Rethrown(op, req, r) == Escaped(op, req)

\* the run is over: the endpoint answers, the scheduled run only logs
Finished(op, req, r) == IF op = "scheduled" THEN Idle ELSE Responding(op, req, r)

ScrapeBegin(c, body) ==
  /\ FreeSlot(c)
  /\ call' = [call EXCEPT ![c] =
                IF ~requireAdminToken(ADMIN_TOKEN, body.token)
                THEN Responding("scrape", body, text("Unauthorized", 401))
                ELSE [Idle EXCEPT !.pc = "crawl", !.op = "scrape", !.req = body]]
  /\ UNCHANGED <<ADMIN_TOKEN, teachers, reviews, clock>>

\* scheduled(event, env, ctx)
Scheduled(c) ==
  /\ FreeSlot(c)
  /\ call' = [call EXCEPT ![c] = [Idle EXCEPT !.pc = "crawl", !.op = "scheduled"]]
  /\ UNCHANGED <<ADMIN_TOKEN, teachers, reviews, clock>>

\* runScrapeAll up to its first upsert: the directory is crawled, then the loop
\* skips to the first name that passes the classifier, reads the clock and prepares
\* the statement
ScrapeCrawl(c, web) ==
  /\ call[c].pc = "crawl"
  /\ LET skyline == scrapeSkylineStaffDirectory(web)
         todo == SkipRejected(skyline.names)
     IN  call' = [call EXCEPT ![c] =
                    IF skyline.threw THEN Finished(call[c].op, call[c].req, ScrapeFailure)
                    ELSE IF todo = <<>>
                    THEN Finished(call[c].op, call[c].req,
                                  ScrapeSummary(Len(skyline.names), 0,
                                                skyline.pages_visited))
                    ELSE [call[c] EXCEPT !.pc = "upsert", !.todo = todo,
                                         !.names = skyline.names,
                                         !.before = Len(teachers),
                                         !.now = clock,
                                         !.found = Len(skyline.names),
                                         !.pages = skyline.pages_visited]]
  /\ UNCHANGED <<ADMIN_TOKEN, teachers, reviews, clock>>

\* a reconciler that rebuilds the store on every upsert, dropping the reviews
ScrapeUpsertClearingReviews(c) ==
  /\ call[c].pc = "upsert"
  /\ teachers' = UpsertTeacher(teachers, Head(call[c].todo), ScrapeSchool,
                               buildSkylineDirectoryUrl, call[c].now)
  /\ reviews' = <<>>
  /\ LET rest == SkipRejected(Tail(call[c].todo))
         n == call[c].upserted + 1
     IN  call' = [call EXCEPT ![c] =
                    IF rest = <<>>
                    THEN Finished(call[c].op, call[c].req,
                                  ScrapeSummary(call[c].found, n, call[c].pages))
                    ELSE [call[c] EXCEPT !.todo = rest, !.now = clock, !.upserted = n]]
  /\ UNCHANGED <<ADMIN_TOKEN, clock>>

\* the store runs the upsert; the loop counts it and goes on to the next name that
\* passes the classifier, or returns
ScrapeUpsert(c) ==
  /\ call[c].pc = "upsert"
  /\ teachers' = UpsertTeacher(teachers, Head(call[c].todo), ScrapeSchool,
                               buildSkylineDirectoryUrl, call[c].now)
  /\ LET rest == SkipRejected(Tail(call[c].todo))
         n == call[c].upserted + 1
     IN  call' = [call EXCEPT ![c] =
                    IF rest = <<>>
                    THEN Finished(call[c].op, call[c].req,
                                  ScrapeSummary(call[c].found, n, call[c].pages))
                    ELSE [call[c] EXCEPT !.todo = rest, !.now = clock, !.upserted = n]]
  /\ UNCHANGED <<ADMIN_TOKEN, reviews, clock>>

-----------------------------------------------------------------------------

\* the response reaches the caller; the slot is free again
Deliver(c) ==
  /\ call[c].pc = "respond"
  /\ call' = [call EXCEPT ![c] = Idle]
  /\ UNCHANGED <<ADMIN_TOKEN, teachers, reviews, clock>>

-----------------------------------------------------------------------------
(* Faults of the store.  A statement the store cannot run rejects: the      *)
(* await throws in the handler.  Only the scrape endpoint and the scheduled *)
(* run call the store inside a try; anywhere else the exception leaves the  *)
(* fetch handler (pc "threw") and the response is the platform's.           *)

\* the catch of the scrape endpoint, for an exception of the store
StoreFailure ==
  json([NoData EXCEPT !.ok = {FALSE}, !.error = "D1_ERROR"], 500)

\* the statement a request in flight waits for fails
StoreFault(c) ==
  /\ call[c].pc \in {"update", "exists", "insert", "upsert"}
  /\ call' = [call EXCEPT ![c] =
                IF call[c].pc = "upsert"
                THEN Finished(call[c].op, call[c].req, StoreFailure)
                ELSE Escaped(call[c].op, call[c].req)]
  /\ UNCHANGED <<ADMIN_TOKEN, teachers, reviews, clock>>

\* GET /api/teacher?id= and GET /api/reviews?teacher_id= with an id: a SELECT fails
ReadFault(c, op) ==
  /\ FreeSlot(c)
  /\ call' = [call EXCEPT ![c] = Escaped(op, NoReq)]
  /\ UNCHANGED <<ADMIN_TOKEN, teachers, reviews, clock>>

\* POST /api/admin/pending: the SELECT of getPendingReviews fails
PendingFault(c, body) ==
  /\ FreeSlot(c)
  /\ call' = [call EXCEPT ![c] =
                IF ~requireAdminToken(ADMIN_TOKEN, body.token)
                THEN Responding("pending", body, text("Unauthorized", 401))
                ELSE Escaped("pending", body)]
  /\ UNCHANGED <<ADMIN_TOKEN, teachers, reviews, clock>>

\* the platform has answered for the handler; the slot is free again
Abandon(c) ==
  /\ call[c].pc = "threw"
  /\ call' = [call EXCEPT ![c] = Idle]
  /\ UNCHANGED <<ADMIN_TOKEN, teachers, reviews, clock>>

-----------------------------------------------------------------------------
(* The scheduled run of the Worker of index.js that scrapes the staff page  *)
(* as text (scrapeSkylineStaffHTML) and reconciles without the classifier.  *)
(* The text of a page is the texts of its elements with spaces for the     *)
(* tags; the patterns are matched word by word, which is what the regular  *)
(* expressions do on words made of letters with at most a comma after.     *)

\* the url of scrapeSkylineStaffHTML
StaffPageUrl == [origin |-> "https://skyline.isd411.org", path |-> "/staff", query |-> ""]

RECURSIVE JoinTexts(_)
\* html.replace(/<[^>]+>/g, " ")
JoinTexts(texts) ==
  IF texts = <<>> THEN <<>>
  ELSE <<" ">> \o Head(texts) \o <<" ">> \o JoinTexts(Tail(texts))

\* textOnly, split into its words
TextWords(texts) == NameParts(trim(CollapseWs(JoinTexts(texts))))

\* [a-zA-Z'-]
WordChar(ch) == IsUpper(ch) \/ IsLower(ch) \/ ch \in {"'", "-"}

\* w matches [A-Z][a-zA-Z'-]{n,}
CapWord(w, n) ==
  /\ Len(w) >= n + 1
  /\ IsUpper(w[1])
  /\ \A i \in 2..Len(w) : WordChar(w[i])

HasComma(w) == w # <<>> /\ w[Len(w)] = ","

Bare(w) == IF HasComma(w) THEN SubSeq(w, 1, Len(w) - 1) ELSE w

RECURSIVE PatternA(_)
\* Pattern A, "Last, First": the names normalizeName(`${m[2]} ${m[1]}`) of the
\* matches, in order
PatternA(ws) ==
  IF Len(ws) < 2 THEN <<>>
  ELSE IF HasComma(ws[1]) /\ CapWord(Bare(ws[1]), 1) /\ CapWord(Bare(ws[2]), 1)
  THEN <<normalizeName(Bare(ws[2]) \o <<" ">> \o Bare(ws[1]))>> \o PatternA(Tail(Tail(ws)))
  ELSE PatternA(Tail(ws))

\* full.length > 40
PatternBMaxLen == 40

SkylineWord == <<"s", "k", "y", "l", "i", "n", "e">>

RECURSIVE PatternB(_)
\* Pattern B, "First Last": the names of the matches that are kept, in order
PatternB(ws) ==
  IF Len(ws) < 2 THEN <<>>
  ELSE IF ~HasComma(ws[1]) /\ CapWord(ws[1], 2) /\ CapWord(Bare(ws[2]), 2)
  THEN LET full == normalizeName(ws[1] \o <<" ">> \o Bare(ws[2]))
       IN  (IF Len(full) > PatternBMaxLen \/ includes(toLowerCase(full), SkylineWord)
            THEN <<>> ELSE <<full>>) \o PatternB(Tail(Tail(ws)))
  ELSE PatternB(Tail(ws))

\* scrapeSkylineStaffHTML(): threw when the fetch is not ok
scrapeSkylineStaffHTML(web) ==
  LET res == FetchPage(web, StaffPageUrl)
      ws == TextWords(res.texts)
  IN  [threw |-> ~res.ok,
       names |-> SelectSeq(Dedup(PatternA(ws) \o PatternB(ws), <<>>), IsNonEmpty)]

\* the names of the loop of this runScrapeAll that reach upsertTeacher, in order
RECURSIVE SkipSingleTokens(_)
SkipSingleTokens(names) ==
  IF names # <<>> /\ (Head(names) = <<>> \/ Len(NameParts(Head(names))) < 2)
  THEN SkipSingleTokens(Tail(names))
  ELSE names

\* scheduled(event, env, ctx) of this Worker
StaffPageScheduled(c) ==
  /\ FreeSlot(c)
  /\ call' = [call EXCEPT ![c] = [Idle EXCEPT !.pc = "staffpage", !.op = "scheduled"]]
  /\ UNCHANGED <<ADMIN_TOKEN, teachers, reviews, clock>>

\* runScrapeAll up to its first upsert; a failed fetch is logged
StaffPageCrawl(c, web) ==
  /\ call[c].pc = "staffpage"
  /\ LET skyline == scrapeSkylineStaffHTML(web)
         todo == SkipSingleTokens(skyline.names)
     IN  call' = [call EXCEPT ![c] =
                    IF skyline.threw \/ todo = <<>> THEN Idle
                    ELSE [call[c] EXCEPT !.pc = "staffupsert", !.todo = todo,
                                         !.names = skyline.names,
                                         !.before = Len(teachers),
                                         !.now = clock,
                                         !.found = Len(skyline.names)]]
  /\ UNCHANGED <<ADMIN_TOKEN, teachers, reviews, clock>>

\* the store runs the upsert; the loop goes on to the next name of two words or
\* more, or returns
StaffPageUpsert(c) ==
  /\ call[c].pc = "staffupsert"
  /\ teachers' = UpsertTeacher(teachers, Head(call[c].todo), ScrapeSchool,
                               StaffPageUrl, call[c].now)
  /\ LET rest == SkipSingleTokens(Tail(call[c].todo))
     IN  call' = [call EXCEPT ![c] =
                    IF rest = <<>> THEN Idle
                    ELSE [call[c] EXCEPT !.todo = rest, !.now = clock,
                                         !.upserted = call[c].upserted + 1]]
  /\ UNCHANGED <<ADMIN_TOKEN, reviews, clock>>

LeeComma == <<"L", "e", "e", ",">>

Ann == <<"A", "n", "n">>

StaffPageDown == [u \in {} |-> NoPage]

\* a page with a heading and a name
StaffPageHeaded ==
  [u \in {StaffPageUrl} |->
     [ok |-> TRUE, texts |-> <<StaffDirectory, AnnLee>>, hrefs |-> <<HomeHref>>]]

\* a page that lists "Lee, Ann" and "Bo  Ray"
StaffPageListed ==
  [u \in {StaffPageUrl} |->
     [ok |-> TRUE, texts |-> <<LeeComma, Ann, BoRayRaw>>, hrefs |-> <<>>]]

StaffPages == {StaffPageDown, StaffPageHeaded, StaffPageListed}

-----------------------------------------------------------------------------

\* time passes
Tick ==
  /\ clock < MaxClock
  /\ clock' = clock + 1
  /\ UNCHANGED <<ADMIN_TOKEN, teachers, reviews, call>>

-----------------------------------------------------------------------------
(* The requests the callers send. *)

ShortSecret == <<"p", "w">>

LongSecret == <<"a", "d", "m", "i", "n", "-", "s", "e", "c", "r", "e", "t">>

WrongToken == <<"x">>

\* env.ADMIN_TOKEN: unset, set too short, set
EnvTokens == {<<>>, ShortSecret, LongSecret}

\* the tokens a caller supplies: none, the secret, the secret followed by a space,
\* another string
TokenInputs ==
  {JNone, JStr(ADMIN_TOKEN), JStr(ADMIN_TOKEN \o <<" ">>), JStr(WrongToken)}

\* the ids a caller supplies: none, the empty string, a word, 0, and the ids
\* 1..MaxReviews+1
IdInputs ==
  {JNone, JStr(<<>>), JStr(<<"a", "b", "c">>)} \cup {JNum(k) : k \in 0..(MaxReviews + 1)}

ModerationBodies == {[token |-> t, id |-> i] : t \in TokenInputs, i \in IdInputs}

PendingBodies == {[token |-> t, limit |-> l] : t \in TokenInputs, l \in {JNone, JNum(1)}}

ScrapeBodies == {[token |-> t] : t \in TokenInputs}

\* the submission of the specification's round trip
GoodBody ==
  [teacher_id |-> JStr(<<"1">>), school |-> JStr(<<"S">>), overall |-> JNum(5),
   difficulty |-> JNum(3), clarity |-> JNum(4), would_take_again |-> JBool(TRUE),
   comment |-> JStr(<<"o", "k">>)]

\* the body of a request whose JSON does not parse: readJson gives null, the
\* handler reads {}
EmptyBody ==
  [teacher_id |-> JNone, school |-> JNone, overall |-> JNone, difficulty |-> JNone,
   clarity |-> JNone, would_take_again |-> JNone, comment |-> JNone]

SubmitBodies ==
  {GoodBody, EmptyBody,
   [GoodBody EXCEPT !.overall = JNum(1), !.difficulty = JNum(5), !.clarity = JNum(2),
                    !.would_take_again = JBool(FALSE)],
   [GoodBody EXCEPT !.teacher_id = JNum(2)],
   [GoodBody EXCEPT !.teacher_id = JStr(<<" ">>)],
   [GoodBody EXCEPT !.school = JStr(<<" ">>)],
   [GoodBody EXCEPT !.overall = JNum(0)],
   [GoodBody EXCEPT !.overall = JNum(6)],
   [GoodBody EXCEPT !.overall = JStr(<<"a">>)],
   [GoodBody EXCEPT !.clarity = JNone]}

TeacherIdTexts == {<<>>, <<"1">>, <<"2">>}

-----------------------------------------------------------------------------

\* the requests of the concurrent specification: callers that hold the secret and
\* address rows that can exist, one submission per teacher, a directory that is up
\* and one that is down
SecretBodies == {[token |-> JStr(ADMIN_TOKEN), id |-> JNum(k)] : k \in 1..MaxReviews}

PlainBodies == {GoodBody, [GoodBody EXCEPT !.teacher_id = JNum(2), !.overall = JNum(1),
                                           !.would_take_again = JBool(FALSE)]}

PlainWebs == {WebDown, WebTwo}

-----------------------------------------------------------------------------

Init ==
  /\ ADMIN_TOKEN \in EnvTokens
  /\ teachers = <<>>
  /\ reviews = <<>>
  /\ clock = 0
  /\ call = [c \in Clients |-> Idle]

\* the Worker of a deployment whose secret is set
InitConfigured == Init /\ ADMIN_TOKEN = LongSecret

\* Requests are handled concurrently: a request starts whenever a slot is free, and
\* the statements of the requests in flight reach the store in any order.
Next ==
  \E c \in Clients :
    \/ \E op \in {"approve", "reject"}, body \in SecretBodies : ModerateBegin(c, op, body)
    \/ ModerateExec(c)
    \/ \E body \in PlainBodies : SubmitBegin(c, body)
    \/ SubmitExists(c)
    \/ SubmitInsert(c)
    \/ \E body \in {[token |-> JStr(ADMIN_TOKEN)]} : ScrapeBegin(c, body)
    \/ Scheduled(c)
    \/ \E web \in PlainWebs : ScrapeCrawl(c, web)
    \/ ScrapeUpsert(c)
    \/ Deliver(c)

Spec == InitConfigured /\ [][Next]_vars

\* Requests are handled one at a time (slot 1 alone is used), and the callers send
\* every request of the model.
NextApi ==
  \/ \E op \in {"approve", "reject"}, body \in ModerationBodies : ModerateBegin(1, op, body)
  \/ ModerateExec(1)
  \/ \E body \in SubmitBodies : SubmitBegin(1, body)
  \/ SubmitExists(1)
  \/ SubmitInsert(1)
  \/ \E idText \in TeacherIdTexts : GetTeacher(1, idText)
  \/ \E idText \in TeacherIdTexts : GetReviews(1, idText)
  \/ \E body \in PendingBodies : AdminPending(1, body)
  \/ \E body \in ScrapeBodies : ScrapeBegin(1, body)
  \/ Scheduled(1)
  \/ \E web \in Webs : ScrapeCrawl(1, web)
  \/ ScrapeUpsert(1)
  \/ Deliver(1)

SpecApi == Init /\ [][NextApi]_vars

\* either, with the clock running
SpecTimed == Init /\ [][NextApi \/ Tick]_vars

\* The roster: scrapes on demand and on schedule, handled concurrently, against
\* every directory of the model, with the clock running.
NextRoster ==
  \/ \E c \in Clients :
       \/ \E body \in {[token |-> JStr(ADMIN_TOKEN)]} : ScrapeBegin(c, body)
       \/ Scheduled(c)
       \/ \E web \in RosterWebs : ScrapeCrawl(c, web)
       \/ ScrapeUpsert(c)
       \/ Deliver(c)
  \/ Tick

SpecRoster == InitConfigured /\ [][NextRoster]_vars

\* The roster of the Worker that scrapes the staff page as text: its scheduled
\* runs, handled concurrently, with the clock running.
NextStaffPage ==
  \/ \E c \in Clients :
       \/ StaffPageScheduled(c)
       \/ \E web \in StaffPages : StaffPageCrawl(c, web)
       \/ StaffPageUpsert(c)
  \/ Tick

SpecStaffPage == InitConfigured /\ [][NextStaffPage]_vars

\* The Worker over a store that can fail any statement: scheduled runs beside the
\* requests of the callers, handled concurrently.
NextFaulty ==
  \E c \in Clients :
    \/ \E op \in {"approve", "reject"} :
         ModerateBegin(c, op, [token |-> JStr(ADMIN_TOKEN), id |-> JNum(1)])
    \/ ModerateExec(c)
    \/ SubmitBegin(c, GoodBody)
    \/ SubmitExists(c)
    \/ SubmitInsert(c)
    \/ GetReviews(c, <<"1">>)
    \/ AdminPending(c, [token |-> JStr(ADMIN_TOKEN), limit |-> JNone])
    \/ Scheduled(c)
    \/ \E web \in PlainWebs : ScrapeCrawl(c, web)
    \/ ScrapeUpsert(c)
    \/ StoreFault(c)
    \/ \E op \in {"teacher", "reviews"} : ReadFault(c, op)
    \/ PendingFault(c, [token |-> JStr(ADMIN_TOKEN), limit |-> JNone])
    \/ Deliver(c)
    \/ Abandon(c)

SpecFaulty == InitConfigured /\ [][NextFaulty]_vars

\* The moderation queue of a Worker that has been in use: Ann Lee is on the roster
\* and n submissions for her have been stored, one at each tick of the clock.
Backlog(n) ==
  [i \in 1..n |->
     InsertReview(<<>>, [SubmitLocal(GoodBody).row EXCEPT !.created_at = i])[1]]

\* the lengths of the queue: empty, short, past the default page, past the cap
QueueSizes == {0, 2, PendingDefaultLimit + 2, PendingMaxLimit + 1}

FiftyOneAndAHalf == <<"5", "1", ".", "5">>

\* the limits a moderator supplies: none, 0, 1, 250, "a", "51.5"
LimitInputs ==
  {JNone, JNum(0), JNum(1), JNum(PendingMaxLimit + 50), JStr(<<"a">>),
   JStr(FiftyOneAndAHalf)}

QueueBodies == {[token |-> JStr(ADMIN_TOKEN), limit |-> l] : l \in LimitInputs}

InitQueue ==
  /\ ADMIN_TOKEN = LongSecret
  /\ teachers = UpsertTeacher(<<>>, AnnLee, ScrapeSchool, buildSkylineDirectoryUrl, 0)
  /\ reviews \in {Backlog(n) : n \in QueueSizes}
  /\ clock = Len(reviews)
  /\ call = [c \in Clients |-> Idle]

\* the moderator lists the queue and moderates its two oldest reviews, one request
\* at a time
NextQueue ==
  \/ \E body \in QueueBodies : AdminPending(1, body)
  \/ \E op \in {"approve", "reject"}, body \in SecretBodies : ModerateBegin(1, op, body)
  \/ ModerateExec(1)
  \/ Deliver(1)

SpecQueue == InitQueue /\ [][NextQueue]_vars

\* The ranking of a Worker that has been in use.  The stores: none; two teachers
\* with reviews of every status; two teachers whose averages 15/11 and 19/14 differ
\* by less than a hundredth; 51 teachers with one approved review each.
TeacherRow(name) == UpsertTeacher(<<>>, name, ScrapeSchool, buildSkylineDirectoryUrl, 0)[1]

ReviewRow(t, overall, status) ==
  [InsertReview(<<>>, [SubmitLocal(GoodBody).row EXCEPT !.teacher_id = Digits(t),
                                                        !.overall = overall])[1]
     EXCEPT !.status = status]

BoRay == normalizeName(BoRayRaw)

NoStore == [ts |-> <<>>, rs |-> <<>>]

MixedStore ==
  [ts |-> <<TeacherRow(AnnLee), TeacherRow(BoRay)>>,
   rs |-> <<ReviewRow(1, 5, "pending"), ReviewRow(2, 4, "pending"),
            ReviewRow(1, 3, "approved"), ReviewRow(2, 1, "rejected"),
            ReviewRow(2, 3, "approved"), ReviewRow(2, 3, "approved")>>]

CloseStore ==
  [ts |-> <<TeacherRow(AnnLee), TeacherRow(BoRay)>>,
   rs |-> [i \in 1..25 |->
             IF i <= 11 THEN ReviewRow(1, IF i <= 7 THEN 1 ELSE 2, "approved")
             ELSE ReviewRow(2, IF i <= 20 THEN 1 ELSE 2, "approved")]]

\* Ann Lee, Bnn Lee, ..., Znn Lee, Ann Ray, ...
ManyName(k) ==
  <<UpperChars[((k - 1) % 26) + 1], "n", "n", " ">>
    \o (IF k <= 26 THEN <<"L", "e", "e">> ELSE <<"R", "a", "y">>)

ManyStore ==
  [ts |-> [k \in 1..(TopMaxLimit + 1) |-> TeacherRow(ManyName(k))],
   rs |-> [k \in 1..(TopMaxLimit + 1) |-> ReviewRow(k, ((k - 1) % 5) + 1, "approved")]]

TopStores == {NoStore, MixedStore, CloseStore, ManyStore}

\* the limits a caller supplies: none, "0", "1", "60", "a"
TopLimits == {JNone, JStr(<<"0">>), JStr(<<"1">>), JStr(<<"6", "0">>), JStr(<<"a">>)}

InitTop ==
  /\ ADMIN_TOKEN = LongSecret
  /\ \E st \in TopStores : teachers = st.ts /\ reviews = st.rs
  /\ clock = 0
  /\ call = [c \in Clients |-> Idle]

\* callers read the ranking while the moderator moderates the two oldest reviews,
\* one request at a time
NextTop ==
  \/ \E limit \in TopLimits : GetTop(1, limit)
  \/ \E op \in {"approve", "reject"}, body \in SecretBodies : ModerateBegin(1, op, body)
  \/ ModerateExec(1)
  \/ Deliver(1)

SpecTop == InitTop /\ [][NextTop]_vars

\* The classifier's candidates.  The words of a candidate: names, a name with an
\* apostrophe, a period, a word in capitals, a word that holds a blocked word, a
\* word with a digit, a long word.
NameWords ==
  {<<"A", "n", "n">>, <<"B", "o">>, <<"O", "'", "N", "e", "i", "l">>, <<".">>,
   <<"J", "A", "N", "E">>, <<"R", "h", "o", "m", "e">>, <<"B", "2">>,
   <<"B", "a", "r", "t", "h", "o", "l", "o", "m", "e", "w", "-", "A", "s", "h", "t", "o", "n">>}

\* candidates of one to three words, and of four short ones, joined by single spaces
NameCandidates ==
  NameWords
    \cup {a \o <<" ">> \o b : a, b \in NameWords}
    \cup {a \o <<" ">> \o b \o <<" ">> \o c : a, b, c \in NameWords}
    \cup {a \o <<" ">> \o b \o <<" ">> \o a \o <<" ">> \o b : a, b \in {<<"A", "n", "n">>, <<"B", "o">>}}

\* a candidate as a page holds it: as it is, or with whitespace before it, after it
\* and doubled between its words
Spread(s) ==
  SelectSeq([i \in 1..(2 * Len(s)) |->
               IF i % 2 = 1 THEN s[(i + 1) \div 2]
               ELSE IF s[i \div 2] = " " THEN "\n"
               ELSE ""],
            IsChar)

Padded(s) == <<"\t">> \o Spread(s) \o <<" ", " ">>

RawCandidates == NameCandidates \cup {Padded(s) : s \in NameCandidates} \cup {<<>>}

\* the texts of the name elements of the pages of the directories scraped here
Dots == <<".", " ", ".", " ", ".">>

ONeilAnnBo == <<"O", "'", "N", "e", "i", "l", " ", "A", "n", "n", " ", "B", "o">>

JaneSmythe == <<"J", "A", "N", "E", " ", "S", "M", "Y", "T", "H", "E">>

ScrapedTexts ==
  {AnnLee, BoRayRaw, Padded(AnnLee), Dots, ONeilAnnBo, JaneSmythe, StaffDirectory,
   <<"A", "n", "n">>, <<"A", "n", "n", " ", "B", "2">>, <<"B", "a", "r", "t", "h", "o", "l", "o", "m", "e", "w", "-", "A", "s", "h", "t", "o", "n", " ", "B", "a", "r", "t", "h", "o", "l", "o", "m", "e", "w", "-", "A", "s", "h", "t", "o", "n", " ", "A", "n", "n">>, <<>>}

\* a directory of one page with one name element
NameWeb(t) ==
  [u \in {buildSkylineDirectoryUrl} |-> [ok |-> TRUE, texts |-> <<t>>, hrefs |-> <<>>]]

NameWebs == {NameWeb(t) : t \in ScrapedTexts}

\* The roster built from pages of every kind of candidate: scheduled runs, one at a
\* time, each against a directory whose page holds one candidate.
NextNames ==
  \/ Scheduled(1)
  \/ \E web \in NameWebs : ScrapeCrawl(1, web)
  \/ ScrapeUpsert(1)

SpecNames == InitConfigured /\ [][NextNames]_vars

-----------------------------------------------------------------------------
(* The Worker that scrapes the directory's cards (the first Worker of       *)
(* src/index.js).  The page is the text of each .fsConstituentItem card, in *)
(* document order; its classifier has no rule on capitals, and its          *)
(* runScrapeAll upserts every name its scraper returns.                     *)

\* buildSkylineDirectoryUrl() of this Worker
CardsUrl ==
  [origin |-> "https://skyline.isd411.org", path |-> "/staff",
   query |-> "utf8=%E2%9C%93&const_search_group_ids=289&const_search_role_ids=1&const_search_keyword=&const_search_first_name=&const_search_last_name=a"]

\* looksLikePersonName(fullName) of this Worker
looksLikePersonName_index(fullName) ==
  LET name == normalizeName(fullName)
      parts == NameParts(name)
      lower == toLowerCase(name)
  IN  /\ name # <<>>
      /\ ~(Len(name) < NameMinLen \/ Len(name) > NameMaxLen)
      /\ \A i \in 1..Len(name) : NameChar(name[i])
      /\ ~(Len(parts) < 2 \/ Len(parts) > 3)
      /\ \A w \in 1..Len(bad) : ~includes(lower, toLowerCase(bad[w]))

TitlesMark == <<"T", "i", "t", "l", "e", "s", ":">>

\* t.indexOf("Titles:"), counted from 0; -1 when there is none
IndexOfTitles(t) ==
  LET at == {i \in 0..(Len(t) - Len(TitlesMark)) :
               SubSeq(t, i + 1, i + Len(TitlesMark)) = TitlesMark}
  IN  IF at = {} THEN -1 ELSE CHOOSE i \in at : \A j \in at : i <= j

\* CardHandler.end(): the candidate of a card, the text before "Titles:"
CardCandidate(card) ==
  LET t == normalizeName(<<" ">> \o card)
      cut == IndexOfTitles(t)
  IN  IF cut # -1 THEN normalizeName(slice(t, cut)) ELSE <<>>

\* scrapeSkylineStaffDirectoryBasic(): threw when the fetch is not ok
scrapeSkylineStaffDirectoryBasic(web) ==
  LET res == FetchPage(web, CardsUrl)
      candidates == [i \in 1..Len(res.texts) |-> CardCandidate(res.texts[i])]
  IN  [threw |-> ~res.ok,
       names |-> Dedup(SelectSeq(candidates, looksLikePersonName_index), <<>>)]

\* scheduled(event, env, ctx) of this Worker
CardsScheduled(c) ==
  /\ FreeSlot(c)
  /\ call' = [call EXCEPT ![c] = [Idle EXCEPT !.pc = "cards", !.op = "scheduled"]]
  /\ UNCHANGED <<ADMIN_TOKEN, teachers, reviews, clock>>

\* runScrapeAll up to its first upsert; a failed fetch is logged
CardsCrawl(c, web) ==
  /\ call[c].pc = "cards"
  /\ LET skyline == scrapeSkylineStaffDirectoryBasic(web)
     IN  call' = [call EXCEPT ![c] =
                    IF skyline.threw \/ skyline.names = <<>> THEN Idle
                    ELSE [call[c] EXCEPT !.pc = "cardupsert", !.todo = skyline.names,
                                         !.names = skyline.names,
                                         !.before = Len(teachers),
                                         !.now = clock,
                                         !.found = Len(skyline.names)]]
  /\ UNCHANGED <<ADMIN_TOKEN, teachers, reviews, clock>>

\* the store runs the upsert; the loop goes on to the next name, or returns
CardsUpsert(c) ==
  /\ call[c].pc = "cardupsert"
  /\ teachers' = UpsertTeacher(teachers, Head(call[c].todo), ScrapeSchool,
                               CardsUrl, call[c].now)
  /\ LET rest == Tail(call[c].todo)
     IN  call' = [call EXCEPT ![c] =
                    IF rest = <<>> THEN Idle
                    ELSE [call[c] EXCEPT !.todo = rest, !.now = clock,
                                         !.upserted = call[c].upserted + 1]]
  /\ UNCHANGED <<ADMIN_TOKEN, reviews, clock>>

CardAnn == <<"A", "n", "n", " ", "L", "e", "e", " ", "T", "i", "t", "l", "e", "s", ":", " ", "T", "e", "a", "c", "h", "e", "r">>

CardJane == <<"J", "A", "N", "E", " ", "S", "M", "Y", "T", "H", "E", " ", " ", "T", "i", "t", "l", "e", "s", ":", " ", "T", "e", "a", "c", "h", "e", "r">>

CardStaff == <<"S", "k", "y", "l", "i", "n", "e", " ", "H", "i", "g", "h", " ", "S", "c", "h", "o", "o", "l", " ", "T", "i", "t", "l", "e", "s", ":", " ", "O", "f", "f", "i", "c", "e">>

CardsDown == [u \in {} |-> NoPage]

\* a card of a teacher, a card without titles, a card of the school
CardsListed ==
  [u \in {CardsUrl} |->
     [ok |-> TRUE, texts |-> <<CardAnn, BoRayRaw, CardStaff>>, hrefs |-> <<>>]]

\* a card whose name is set in capitals
CardsInCapitals ==
  [u \in {CardsUrl} |-> [ok |-> TRUE, texts |-> <<CardJane, CardAnn>>, hrefs |-> <<>>]]

CardPages == {CardsDown, CardsListed, CardsInCapitals}

\* The roster of the Worker that scrapes the directory's cards: its scheduled runs,
\* handled concurrently, with the clock running.
NextCards ==
  \/ \E c \in Clients :
       \/ CardsScheduled(c)
       \/ \E web \in CardPages : CardsCrawl(c, web)
       \/ CardsUpsert(c)
  \/ Tick

SpecCards == InitConfigured /\ [][NextCards]_vars

-----------------------------------------------------------------------------
(* Moderation: the status of a review. *)

ModerationOps == {"approve", "reject"}

\* the moderation calls whose UPDATE has run and whose answer is on its way
Moderated(c) == call[c].op \in ModerationOps /\ call[c].pc = "respond"
                  /\ call[c].resp.status = 200

\* C1: a review enters the table with status "pending"; no step changes the status
\* of a review that is approved or rejected; the only changes of a status are
\* pending -> approved and pending -> rejected, so a status changes at most once.
C1_StatusWrittenOnce ==
  [][/\ Len(reviews') >= Len(reviews)
     /\ \A r \in 1..Len(reviews') :
          IF r > Len(reviews) THEN reviews'[r].status = "pending"
          ELSE \/ reviews'[r].status = reviews[r].status
               \/ /\ reviews[r].status = "pending"
                  /\ reviews'[r].status \in {"approved", "rejected"}]_vars

\* a reject has run against a review that was approved, and the review is approved
C1_RejectAfterApprove ==
  \E c \in Clients :
    /\ Moderated(c) /\ call[c].op = "reject" /\ call[c].seen = "approved"
    /\ reviews[call[c].id].status = "approved"

\* C2: when the moderation calls in flight all arrived while the same review was
\* pending and all have run, exactly one of them reports updated 1, the others
\* report updated 0, and the review has the status the one asked for.
C2_OneWinner ==
  \A r \in 1..Len(reviews) :
    (\A c \in Clients : Moderated(c) /\ call[c].id = r /\ call[c].seen = "pending")
    => \E w \in Clients :
         /\ call[w].resp.data.updated = {1}
         /\ reviews[r].status = StatusOf(call[w].op)
         /\ \A c \in Clients \ {w} : call[c].resp.data.updated = {0}

\* an approve and a reject of the same pending review have both run
C2_ApproveRacedReject ==
  \E r \in 1..Len(reviews) :
    /\ \A c \in Clients : Moderated(c) /\ call[c].id = r /\ call[c].seen = "pending"
    /\ \E a, b \in Clients : call[a].op = "approve" /\ call[b].op = "reject"

\* C3: an approve or a reject of a review that was already approved or rejected is
\* answered 200 with ok true and updated 0, and the review keeps its status.
C3_SecondTransitionIsNoOp ==
  \A c \in Clients :
    (/\ call[c].op \in ModerationOps /\ call[c].pc = "respond"
     /\ call[c].seen \in {"approved", "rejected"})
    => /\ call[c].resp.status = 200
       /\ call[c].resp.type = "json"
       /\ call[c].resp.data.ok = {TRUE}
       /\ call[c].resp.data.updated = {0}
       /\ reviews[call[c].id].status = call[c].seen

\* an approve has run against a review that was rejected
C3_ApproveAfterReject ==
  \E c \in Clients :
    /\ Moderated(c) /\ call[c].op = "approve" /\ call[c].seen = "rejected"
    /\ call[c].resp.data.updated = {0}

\* C4: a transition whose supplied id is not the id of a review reports updated 0,
\* and a transition that reports updated 1 was supplied the id of the review it
\* addressed.
C4_UnknownIdUpdatesNothing ==
  \A c \in Clients :
    Moderated(c)
    => /\ (\A x \in parseInt(call[c].req.id) : x \notin 1..Len(reviews))
            => call[c].resp.data.updated = {0}
       /\ call[c].resp.data.updated = {1} => parseInt(call[c].req.id) = {call[c].id}

-----------------------------------------------------------------------------
(* The administrator's secret. *)

AdminOps == {"approve", "reject", "pending", "scrape"}

\* the admin calls that have arrived
AdminCall(c) == call[c].op \in AdminOps /\ call[c].pc # "idle"

Unauthorized(c) ==
  call[c].pc = "respond" /\ call[c].resp = text("Unauthorized", 401)

\* the supplied token is not the configured secret, character for character
NotExactly(c) ==
  ~(call[c].req.token.t = "str" /\ call[c].req.token.s = ADMIN_TOKEN)

\* the supplied token, as a string without its surrounding white space, is not the
\* configured secret without its surrounding white space, or no secret is configured
NotTrimmedEqual(c) ==
  \/ trim(ADMIN_TOKEN) = <<>>
  \/ trim(JsString(OrEmptyIfFalsy(call[c].req.token))) # trim(ADMIN_TOKEN)

\* C5 as stated: an admin call whose token is not exactly the secret is answered
\* 401 (and so reaches no statement).
C5_ExactTokenOrUnauthorized ==
  \A c \in Clients : AdminCall(c) /\ NotExactly(c) => Unauthorized(c)

\* C5: an admin call whose token, trimmed, is not the trimmed secret (or whose
\* secret is not configured) is answered 401 Unauthorized, and no step of such a
\* call changes a row of teachers or reviews.
C5_TrimmedTokenOrUnauthorized ==
  /\ [](\A c \in Clients : AdminCall(c) /\ NotTrimmedEqual(c) => Unauthorized(c))
  /\ [][\A c \in Clients :
          (call'[c] # call[c] /\ AdminCall(c)' /\ NotTrimmedEqual(c)')
          => UNCHANGED store]_vars

\* each admin endpoint has refused a token that is not the secret, with a review
\* pending
C5_WrongTokenRefused ==
  /\ \E r \in 1..Len(reviews) : reviews[r].status = "pending"
  /\ ADMIN_TOKEN = LongSecret
  /\ \E c \in Clients :
       /\ AdminCall(c) /\ Unauthorized(c) /\ call[c].op = "approve"
       /\ call[c].req.token = JStr(WrongToken)
       /\ call[c].req.id = JNum(1)

\* the shortest secret requireAdmin (the first Worker of the file) accepts
MinTokenLength == 12

\* C6: when the secret is not configured or is shorter than the minimum length,
\* every admin call is answered 500.
C6_MisconfiguredIs500 ==
  Len(ADMIN_TOKEN) < MinTokenLength
  => \A c \in Clients :
       AdminCall(c) => call[c].pc = "respond" /\ call[c].resp.status = 500

-----------------------------------------------------------------------------
(* The public reads. *)

\* the reviews GET /api/reviews can return, for any teacher
Public(rs) ==
  {r \in 1..Len(rs) :
     \E idText \in TeacherIdTexts : \E rows \in SelectApprovedReviews(rs, idText) :
       \E k \in 1..Len(rows) : rows[k] = r}

\* C7: every review GET /api/reviews returns for a teacher is an approved review of
\* that teacher; a review becomes public only in the step in which an approve of it
\* runs and reports updated 1; a rejected review never becomes public.
C7_PublicOnlyApproved ==
  /\ [](\A idText \in TeacherIdTexts : \A resp \in ReviewsResponses(idText) :
          \A k \in 1..Len(resp.data.rows) :
            /\ reviews[resp.data.rows[k]].status = "approved"
            /\ idText = Digits(reviews[resp.data.rows[k]].teacher_id))
  /\ [][\A r \in Public(reviews') \ Public(reviews) :
          \E c \in Clients :
            /\ call[c].pc = "update" /\ call[c].op = "approve" /\ call[c].id = r
            /\ call'[c].pc = "respond" /\ call'[c].resp.data.updated = {1}]_vars
  /\ [][\A r \in 1..Len(reviews) :
          reviews[r].status = "rejected" => r \notin Public(reviews')]_vars

\* an approve has made one review of a teacher public while another review of the
\* teacher is rejected and not public
C7_ApprovedBesideRejected ==
  \E c \in Clients : \E r \in 1..Len(reviews) :
    /\ Moderated(c) /\ call[c].op = "approve" /\ call[c].resp.data.updated = {1}
    /\ call[c].id \in Public(reviews)
    /\ reviews[r].status = "rejected" /\ r \notin Public(reviews)
    /\ reviews[r].teacher_id = reviews[call[c].id].teacher_id

\* GET /api/teacher has answered 200 for teacher t
TeacherAnswered(c, t) ==
  /\ call[c].op = "teacher" /\ call[c].pc = "respond" /\ call[c].resp.status = 200
  /\ call[c].resp.data.teacher = {t}

ApprovedOf(t) ==
  {r \in 1..Len(reviews) : reviews[r].teacher_id = t /\ reviews[r].status = "approved"}

RECURSIVE TotalOf(_, _, _)
\* the sum of column col over the approved reviews of teacher t among the first n
TotalOf(n, t, col) ==
  IF n = 0 THEN 0
  ELSE TotalOf(n - 1, t, col) + (IF n \in ApprovedOf(t) THEN reviews[n][col] ELSE 0)

\* x is the number total / count
IsQuotient(x, total, count) ==
  \E f \in x : x = {f} /\ f.den > 0 /\ f.num * count = total * f.den

\* C8: the statistics GET /api/teacher answers are taken over exactly the approved
\* reviews of the teacher: review_count is their number, each average is the sum of
\* the column over them divided by their number, and would_take_again_pct is 100
\* times the fraction of them with would_take_again set, a number from 0 to 100.
C8_StatsOverApproved ==
  \A c \in Clients : \A t \in 1..Len(teachers) :
    TeacherAnswered(c, t)
    => LET stats == call[c].resp.data.stats
           n == Cardinality(ApprovedOf(t))
           last == Len(reviews)
       IN  /\ stats.review_count = {n}
           /\ n > 0 =>
                /\ IsQuotient(stats.avg_overall, TotalOf(last, t, "overall"), n)
                /\ IsQuotient(stats.avg_clarity, TotalOf(last, t, "clarity"), n)
                /\ IsQuotient(stats.avg_difficulty, TotalOf(last, t, "difficulty"), n)
                /\ IsQuotient(stats.would_take_again_pct,
                              100 * Cardinality({r \in ApprovedOf(t) :
                                                   reviews[r].would_take_again = 1}), n)
                /\ \A f \in stats.would_take_again_pct :
                     0 <= f.num /\ f.num <= 100 * f.den

\* the statistics of a teacher with two approved reviews, 5 and 1 overall, one of
\* them with would_take_again set
C8_TwoApproved ==
  \E c \in Clients : \E t \in 1..Len(teachers) :
    /\ TeacherAnswered(c, t)
    /\ call[c].resp.data.stats.review_count = {2}
    /\ call[c].resp.data.stats.avg_overall = {[num |-> 6, den |-> 2]}
    /\ call[c].resp.data.stats.would_take_again_pct = {[num |-> 100, den |-> 2]}

\* C9: for a teacher with no approved review GET /api/teacher answers review_count
\* 0 and null for every average and for would_take_again_pct.
C9_NoApprovedIsNull ==
  \A c \in Clients : \A t \in 1..Len(teachers) :
    TeacherAnswered(c, t) /\ ApprovedOf(t) = {}
    => LET stats == call[c].resp.data.stats
       IN  /\ stats.review_count = {0}
           /\ stats.avg_overall = {}
           /\ stats.avg_clarity = {}
           /\ stats.avg_difficulty = {}
           /\ stats.would_take_again_pct = {}

\* the statistics of a teacher whose reviews are one pending and one rejected
C9_OnlyPendingAndRejected ==
  \E c \in Clients : \E t \in 1..Len(teachers) :
    /\ TeacherAnswered(c, t) /\ ApprovedOf(t) = {}
    /\ \E p, q \in 1..Len(reviews) :
         /\ reviews[p].teacher_id = t /\ reviews[p].status = "pending"
         /\ reviews[q].teacher_id = t /\ reviews[q].status = "rejected"

-----------------------------------------------------------------------------
(* Submissions. *)

\* the value parses to an integer outside RatingMin..RatingMax
OutOfRange(v) == \E x \in parseInt(v) : x < RatingMin \/ x > RatingMax

\* C10: a submission for an existing teacher, with a school, one of whose ratings
\* is an integer outside 1..5 is answered 400.
C10_OutOfRangeRefused ==
  \A c \in Clients :
    (/\ call[c].op = "submit" /\ call[c].pc = "respond"
     /\ TeacherExists(teachers, trim(JsString(OrEmpty(call[c].req.teacher_id))))
     /\ cleanStr(OrEmpty(call[c].req.school), SchoolMaxLen) # <<>>
     /\ \/ OutOfRange(call[c].req.overall)
        \/ OutOfRange(call[c].req.difficulty)
        \/ OutOfRange(call[c].req.clarity))
    => call[c].resp.status = 400

-----------------------------------------------------------------------------
(* Stored reviews. *)

\* the fields of a submission as the handler reads them
SubmittedTeacher(c) == trim(JsString(OrEmpty(call[c].req.teacher_id)))

SubmittedSchool(c) == cleanStr(OrEmpty(call[c].req.school), SchoolMaxLen)

\* the value is an integer from RatingMin to RatingMax
InRange(v) == \E x \in parseInt(v) : RatingMin <= x /\ x <= RatingMax

SubmittedRatingsInRange(c) ==
  InRange(call[c].req.overall) /\ InRange(call[c].req.difficulty)
    /\ InRange(call[c].req.clarity)

\* a submission has been answered
Submitted(c) == call[c].op = "submit" /\ call[c].pc = "respond"

\* C11: every stored review has overall, clarity and difficulty in 1..5,
\* would_take_again in {0, 1} and status pending, approved or rejected.
C11_ReviewRowsWellFormed ==
  \A r \in 1..Len(reviews) :
    /\ reviews[r].overall \in RatingMin..RatingMax
    /\ reviews[r].clarity \in RatingMin..RatingMax
    /\ reviews[r].difficulty \in RatingMin..RatingMax
    /\ reviews[r].would_take_again \in {0, 1}
    /\ reviews[r].status \in {"pending", "approved", "rejected"}

\* a submission with overall 6 has been stored, beside a rejected review
C11_StoredFromSix ==
  \E c \in Clients :
    /\ Submitted(c) /\ call[c].resp.status = 201
    /\ call[c].req.overall = JNum(6)
    /\ reviews[Len(reviews)].overall = RatingMax
    /\ \E r \in 1..Len(reviews) : reviews[r].status = "rejected"

\* C12 as stated: a submission whose teacher_id does not identify an existing
\* teacher is answered 404.
C12_UnknownTeacherIs404 ==
  \A c \in Clients :
    Submitted(c) /\ ~TeacherExists(teachers, SubmittedTeacher(c))
    => call[c].resp.status = 404

\* C12: a submission whose teacher_id does not identify an existing teacher is
\* answered 400 or 404, and 404 "Teacher not found" when its teacher_id and school
\* are not blank and its ratings are integers in 1..5; no step of it changes a
\* review or a teacher; teachers are never removed, and every stored review's
\* teacher_id is the id of a teacher.
C12_ReviewsReferenceTeachers ==
  /\ [](\A c \in Clients :
          Submitted(c) /\ ~TeacherExists(teachers, SubmittedTeacher(c))
          => /\ call[c].resp.status \in {400, 404}
             /\ (SubmittedTeacher(c) # <<>> /\ SubmittedSchool(c) # <<>>
                   /\ SubmittedRatingsInRange(c))
                => call[c].resp = text("Teacher not found", 404))
  /\ [][\A c \in Clients :
          (/\ call'[c] # call[c] /\ call'[c].op = "submit"
           /\ ~TeacherExists(teachers', trim(JsString(OrEmpty(call'[c].req.teacher_id)))))
          => UNCHANGED store]_vars
  /\ [][Len(teachers') >= Len(teachers)]_vars
  /\ [](\A r \in 1..Len(reviews) : reviews[r].teacher_id \in 1..Len(teachers))

\* a well-formed submission for teacher 2 has been answered 404 while teacher 1
\* exists and has a review
C12_TeacherTwoNotFound ==
  \E c \in Clients :
    /\ Submitted(c) /\ call[c].resp = text("Teacher not found", 404)
    /\ SubmittedTeacher(c) = <<"2">>
    /\ Len(teachers) = 1 /\ Len(reviews) = 1

\* C13: a blank teacher_id is answered 400 "Missing teacher_id" whatever the other
\* fields are; otherwise a blank school is answered 400 "Missing school"; otherwise
\* a rating that is not an integer in 1..5 is answered 400 "Ratings must be 1-5";
\* otherwise a teacher_id that identifies no teacher is answered 404.
C13_ValidationInOrder ==
  \A c \in Clients :
    Submitted(c)
    => IF SubmittedTeacher(c) = <<>>
       THEN call[c].resp = text("Missing teacher_id", 400)
       ELSE IF SubmittedSchool(c) = <<>>
       THEN call[c].resp = text("Missing school", 400)
       ELSE IF ~SubmittedRatingsInRange(c)
       THEN call[c].resp = text("Ratings must be 1-5", 400)
       ELSE IF ~TeacherExists(teachers, SubmittedTeacher(c))
       THEN call[c].resp = text("Teacher not found", 404)
       ELSE call[c].resp.status = 201

\* C14: no step of a submission that is answered 400 or 404 changes a review or a
\* teacher: the only step of a submission that changes the store is the one that
\* ends in the 201 answer.
C14_FailedSubmissionWritesNothing ==
  [][\A c \in Clients :
       (/\ call'[c] # call[c] /\ call'[c].op = "submit"
        /\ ~(call'[c].pc = "respond" /\ call'[c].resp.status = 201))
       => UNCHANGED store]_vars

\* the submission without a readable body has been answered 400 while a teacher
\* and a review exist
C14_EmptyBodyRefused ==
  \E c \in Clients :
    /\ Submitted(c) /\ call[c].req = EmptyBody /\ call[c].resp.status = 400
    /\ Len(teachers) > 0 /\ Len(reviews) > 0

\* C15: a step of a submission changes no teacher and no stored review; the step
\* that ends in the 201 answer appends exactly one review, with status pending, the
\* next id, the submitted teacher_id and, for ratings in 1..5, the submitted ratings;
\* no other step of a submission adds a review; and a submission with all fields
\* valid whose teacher is found goes on to the INSERT and is answered 201.
C15_SubmissionAppendsOneReview ==
  /\ [][\A c \in Clients :
          (call'[c] # call[c] /\ call'[c].op = "submit")
          => /\ teachers' = teachers
             /\ \A r \in 1..Len(reviews) : r <= Len(reviews') /\ reviews'[r] = reviews[r]
             /\ IF call'[c].pc = "respond" /\ call'[c].resp.status = 201
                THEN /\ Len(reviews') = Len(reviews) + 1
                     /\ LET new == reviews'[Len(reviews')]
                            req == call'[c].req
                        IN  /\ new.status = "pending"
                            /\ new.teacher_id = DigitsValue(trim(JsString(OrEmpty(req.teacher_id))))
                            /\ InRange(req.overall) => parseInt(req.overall) = {new.overall}
                            /\ InRange(req.difficulty) => parseInt(req.difficulty) = {new.difficulty}
                            /\ InRange(req.clarity) => parseInt(req.clarity) = {new.clarity}
                ELSE reviews' = reviews]_vars
  /\ [][\A c \in Clients :
          /\ (call[c].pc = "exists" /\ call'[c] # call[c]
                /\ TeacherExists(teachers, call[c].row.teacher_id))
             => call'[c].pc = "insert"
          /\ (call[c].pc = "insert" /\ call'[c] # call[c])
             => call'[c].pc = "respond" /\ call'[c].resp.status = 201]_vars

\* two submissions handled at once have both been stored, for different teachers
C15_TwoStoredAtOnce ==
  /\ \A c \in Clients : Submitted(c) /\ call[c].resp.status = 201
  /\ Len(reviews) = 2
  /\ reviews[1].teacher_id # reviews[2].teacher_id

-----------------------------------------------------------------------------
(* The roster. *)

\* the rows of ts for the pair (name, school)
RowsOf(ts, name, school) ==
  {i \in 1..Len(ts) : ts[i].name = name /\ ts[i].school = school}

UpsertNames == {AnnLee, normalizeName(BoRayRaw)}

UpsertSchools == {ScrapeSchool, "Issaquah High School"}

UpsertUrls == {buildSkylineDirectoryUrl, PageTwoUrl}

\* C16: upserting a (name, school) pair twice into any reachable roster, with any
\* source_url values and at any times, leaves exactly one row for the pair; the
\* second upsert sets the row's source_url and updated_at, keeps its id and
\* created_at, and changes no other row.  Every upsert a scrape runs has this
\* effect on the pair it names.
C16_UpsertTwiceOneRow ==
  /\ [](\A name \in UpsertNames, school \in UpsertSchools :
        \A u1, u2 \in UpsertUrls : \A t1, t2 \in 0..MaxClock :
          LET once == UpsertTeacher(teachers, name, school, u1, t1)
              twice == UpsertTeacher(once, name, school, u2, t2)
          IN  /\ Cardinality(RowsOf(once, name, school)) = 1
              /\ RowsOf(twice, name, school) = RowsOf(once, name, school)
              /\ Len(twice) = Len(once)
              /\ \A i \in 1..Len(once) :
                   IF i \in RowsOf(once, name, school)
                   THEN twice[i] = [once[i] EXCEPT !.source_url = u2, !.updated_at = t2]
                   ELSE twice[i] = once[i])
  /\ [][\A c \in Clients :
          (call[c].pc = "upsert" /\ call'[c] # call[c])
          => LET name == Head(call[c].todo)
                 old == RowsOf(teachers, name, ScrapeSchool)
             IN  /\ Cardinality(RowsOf(teachers', name, ScrapeSchool)) = 1
                 /\ old # {} => /\ Len(teachers') = Len(teachers)
                                /\ RowsOf(teachers', name, ScrapeSchool) = old
                 /\ \A i \in 1..Len(teachers) :
                      IF i \in old
                      THEN teachers'[i] = [teachers[i] EXCEPT
                                             !.source_url = buildSkylineDirectoryUrl,
                                             !.updated_at = call[c].now]
                      ELSE teachers'[i] = teachers[i]]_vars

\* a later scrape has updated the first of two teachers and not the second
C16_OneRowTouchedAgain ==
  /\ Len(teachers) = 2
  /\ teachers[1].created_at = 0 /\ teachers[1].updated_at = 1
  /\ teachers[2].created_at = 0 /\ teachers[2].updated_at = 0

\* the names of a run that reach upsertTeacher
Accepted(names) == {names[k] : k \in {j \in 1..Len(names) : looksLikePersonName(names[j])}}

\* the run of c makes its last upsert in this step
RunEnds(c) == call[c].pc = "upsert" /\ call'[c].pc # "upsert"

\* every name the run of c upserts had its row when the crawl of the run returned,
\* as after an earlier run with the same names
Repeated(c) ==
  \A name \in Accepted(call[c].names) :
    \E i \in 1..call[c].before : i \in RowsOf(teachers, name, ScrapeSchool)

\* C17 as stated, for the report: a run that repeats an earlier run's names reports
\* zero rows.
C17_RepeatedRunReportsZero ==
  [][\A c \in Clients :
       (RunEnds(c) /\ Repeated(c) /\ call[c].op = "scrape")
       => call'[c].resp.data.upserted = {0}]_vars

\* C17: no step changes the id, name, school or created_at of a stored teacher; a
\* run that repeats an earlier run's names adds no row for them (each keeps the one
\* row it had), sets updated_at of the row of its last name to the time it read for
\* that upsert, and reports as upserted the number of names it upserted.
C17_RepeatedRunKeepsRoster ==
  /\ [][\A i \in 1..Len(teachers) :
          /\ i <= Len(teachers')
          /\ teachers'[i].name = teachers[i].name
          /\ teachers'[i].school = teachers[i].school
          /\ teachers'[i].created_at = teachers[i].created_at]_vars
  /\ [][\A c \in Clients :
          (RunEnds(c) /\ Repeated(c))
          => /\ \A name \in Accepted(call[c].names) :
                  /\ RowsOf(teachers', name, ScrapeSchool)
                       = RowsOf(teachers, name, ScrapeSchool)
                  /\ Cardinality(RowsOf(teachers', name, ScrapeSchool)) = 1
             /\ \A i \in RowsOf(teachers', Head(call[c].todo), ScrapeSchool) :
                  teachers'[i].updated_at = call[c].now
             /\ call[c].op = "scrape"
                  => call'[c].resp.data.upserted
                       = {Cardinality(Accepted(call[c].names))}]_vars

\* a scrape on demand has upserted two teachers stored before it, at a later time
C17_SecondRunAnswered ==
  \E c \in Clients :
    /\ call[c].op = "scrape" /\ call[c].pc = "respond"
    /\ call[c].resp.data.upserted = {2}
    /\ Len(teachers) = 2
    /\ \A i \in 1..2 : teachers[i].created_at = 0 /\ teachers[i].updated_at = 1

-----------------------------------------------------------------------------
(* The crawl. *)

\* the names of the first page of the directory web
FirstPageNames(web) == scrapeOneDirectoryPage(web, buildSkylineDirectoryUrl).names

NoRepeat(seq) == \A i, j \in 1..Len(seq) : seq[i] = seq[j] => i = j

\* C20: for every directory web the crawl ends, fetches no URL twice and at most
\* maxPages URLs, and when it returns, pages_visited is the number of URLs it
\* fetched and is what the run goes on to report.
C20_CrawlIsBounded ==
  [][\A c \in Clients : \A web \in RosterWebs :
       ScrapeCrawl(c, web)
       => LET skyline == scrapeSkylineStaffDirectory(web)
          IN  /\ NoRepeat(skyline.fetched)
              /\ Len(skyline.fetched) <= maxPages
              /\ ~skyline.threw
                   => /\ skyline.pages_visited = Len(skyline.fetched)
                      /\ call'[c].pc = "upsert" => call'[c].pages = skyline.pages_visited
                      /\ call'[c].pc = "respond"
                           => call'[c].resp.data.pages_visited = {skyline.pages_visited}]_vars

\* a crawl of the directory whose pages never stop linking on has returned, having
\* seen maxPages pages
C20_ChainCutShort ==
  \E c \in Clients :
    /\ call[c].pc = "upsert" /\ call[c].pages = maxPages
    /\ Len(scrapeSkylineStaffDirectory(WebChain).fetched) = maxPages
    /\ Cardinality(DOMAIN WebChain) > maxPages

-----------------------------------------------------------------------------
(* The reconciler's own check. *)

\* C18: every name a reconciling run hands to upsertTeacher passes the Name
\* Classifier, whatever the scraper returned, so every stored teacher has a name
\* the classifier accepts.
C18_ReconcilerUpsertsOnlyClassified ==
  /\ [][\A c \in Clients :
          (StaffPageUpsert(c) \/ ScrapeUpsert(c))
          => looksLikePersonName(Head(call[c].todo))]_vars
  /\ [](\A i \in 1..Len(teachers) : looksLikePersonName(teachers[i].name))

-----------------------------------------------------------------------------
(* Failures. *)

\* the fetches of the crawl of web that were not answered with success
Unanswered(web) ==
  LET fetched == scrapeSkylineStaffDirectory(web).fetched
  IN  {k \in 1..Len(fetched) : ~FetchPage(web, fetched[k]).ok}

\* C21: a run whose crawl meets a page that does not answer with success has made
\* no upsert and makes none (the roster is as it was and the run is over), the
\* scrape endpoint answers 500 with a JSON body of ok:false and an error message,
\* and the page that failed was fetched once, as the last fetch of the run.
C21_FailedFetchFailsRun ==
  [][\A c \in Clients : \A web \in RosterWebs :
       (ScrapeCrawl(c, web) /\ Unanswered(web) # {})
       => LET fetched == scrapeSkylineStaffDirectory(web).fetched
          IN  /\ teachers' = teachers
              /\ call[c].upserted = 0
              /\ call'[c].pc # "upsert"
              /\ call[c].op = "scrape"
                   => /\ call'[c].pc = "respond"
                      /\ call'[c].resp.status = 500
                      /\ call'[c].resp.type = "json"
                      /\ call'[c].resp.data.ok = {FALSE}
                      /\ call'[c].resp.data.error # ""
              /\ Unanswered(web) = {Len(fetched)}
              /\ NoRepeat(fetched)]_vars

\* a scrape on demand has been answered 500 while two teachers of an earlier run
\* are stored
C21_FailureAnswered ==
  \E c \in Clients :
    /\ call[c].op = "scrape" /\ call[c].pc = "respond"
    /\ call[c].resp.status = 500 /\ call[c].resp.data.ok = {FALSE}
    /\ Len(teachers) = 2

\* the scheduled run of c fails in this step: a page of the directory does not
\* answer, or the store fails an upsert
ScheduledFails(c) ==
  /\ call[c].op = "scheduled"
  /\ \/ StoreFault(c)
     \/ \E web \in PlainWebs : ScrapeCrawl(c, web) /\ scrapeSkylineStaffDirectory(web).threw

\* C22: a scheduled run is never left with an exception thrown out of scheduled();
\* the step in which it fails ends the run, changes no teacher and no review, and
\* changes no other request in flight, which goes on from the state it was in.
C22_ScheduledFailureIsContained ==
  /\ [](\A c \in Clients : call[c].op = "scheduled" => call[c].pc \in {"crawl", "upsert"})
  /\ [][\A c \in Clients :
          ScheduledFails(c)
          => /\ call'[c] = Idle
             /\ store' = store
             /\ \A d \in Clients \ {c} : call'[d] = call[d]]_vars

\* no run is in flight and the roster holds the first name of the directory without
\* the second (the store failed the second upsert of a scheduled run), and an
\* approval handled beside another request has been answered updated: 1
C22_ApprovedBesideFailedRun ==
  /\ Len(teachers) = 1
  /\ call[1] = Idle
  /\ call[2].op = "approve" /\ call[2].pc = "respond"
  /\ call[2].resp.data.updated = {1}

\* C23: no request is left with an exception thrown out of the fetch handler, and
\* a request whose store statement fails is answered 500 with a JSON body that
\* carries an error message.
C23_FaultsAnswered500 ==
  /\ [](\A c \in Clients : call[c].pc # "threw")
  /\ [][\A c \in Clients :
          (StoreFault(c) /\ call[c].op # "scheduled")
          => /\ call'[c].pc = "respond"
             /\ call'[c].resp.status = 500
             /\ call'[c].resp.type = "json"
             /\ call'[c].resp.data.error # ""]_vars

-----------------------------------------------------------------------------
(* The moderation queue. *)

\* the reviews that wait for moderation
PendingIds == {i \in 1..Len(reviews) : reviews[i].status = "pending"}

\* the reviews a result lists
Listed(rows) == {rows[k] : k \in 1..Len(rows)}

\* the page size the body asks for
EffectiveLimit(body) ==
  IF body.limit.t = "none" \/ clampInt(body.limit, 1, PendingMaxLimit) = {}
  THEN PendingDefaultLimit
  ELSE CHOOSE x \in clampInt(body.limit, 1, PendingMaxLimit) : TRUE

\* the callers of /admin/pending that hold the secret
Moderators == {body \in PendingBodies : requireAdminToken(ADMIN_TOKEN, body.token)}

\* C24 as stated: in every state, every result of /admin/pending for a caller with
\* the correct token lists exactly the reviews that are pending.
C24_EveryPendingListed ==
  \A body \in Moderators :
    \A r \in PendingResponses(body) : Listed(r.data.rows) = PendingIds

\* C24: in every state, every result of /admin/pending for a caller with the
\* correct token lists only reviews that are pending (none that was approved or
\* rejected), and lists every pending review when the pending reviews are no more
\* than the page size; and the query over the same reviews with no teacher row to
\* join lists every pending review just the same, each without a teacher.
C24_PendingListedWithinLimit ==
  /\ \A body \in Moderators :
       \A r \in PendingResponses(body) :
         /\ Listed(r.data.rows) \subseteq PendingIds
         /\ Cardinality(PendingIds) <= EffectiveLimit(body)
              => Listed(r.data.rows) = PendingIds
  /\ \A rows \in SelectPendingReviews(<<>>, reviews, PendingDefaultLimit) :
       /\ Listed(rows) = PendingIds
       /\ \A i \in Listed(rows) : JoinedTeacher(<<>>, reviews, i) = {}

\* the queue has been listed with one pending review beside an approved one
C24_OneLeftInQueue ==
  /\ call[1].op = "pending" /\ call[1].pc = "respond"
  /\ call[1].resp.data.rows = <<2>>
  /\ reviews[1].status = "approved"

\* the rows are in the order newest first by created_at
NewestFirstOrder(rows) ==
  \A j, k \in 1..Len(rows) :
    j < k => reviews[rows[j]].created_at >= reviews[rows[k]].created_at

\* the limit is an integer: a number, or a text of digits
IsIntegerLimit(v) ==
  \/ v.t = "num"
  \/ v.t = "str" /\ v.s # <<>> /\ \A i \in 1..Len(v.s) : IsDigit(v.s[i])

\* the page size as stated: the caller's limit restricted to 1..200, and 50 when
\* no limit or a non-integer limit is supplied
StatedLimit(body) ==
  IF ~IsIntegerLimit(body.limit) THEN PendingDefaultLimit
  ELSE Min2(PendingMaxLimit, Max2(1, DigitsValue(JsString(body.limit))))

\* the page size: the integer the limit begins with, restricted to 1..200, and 50
\* when no limit is supplied or the limit does not begin with an integer
LeadingLimit(body) ==
  IF body.limit.t = "none" \/ parseInt(body.limit) = {} THEN PendingDefaultLimit
  ELSE Min2(PendingMaxLimit, Max2(1, CHOOSE x \in parseInt(body.limit) : TRUE))

\* the queue has been listed for c
QueueListed(c) ==
  call[c].op = "pending" /\ call[c].pc = "respond" /\ call[c].resp.status = 200

\* C25 as stated: a listing holds only pending reviews, newest first, and at most
\* L rows, L being 50 for a limit that is not an integer.
C25_AtMostStatedLimit ==
  \A c \in Clients :
    QueueListed(c)
    => /\ Listed(call[c].resp.data.rows) \subseteq PendingIds
       /\ NewestFirstOrder(call[c].resp.data.rows)
       /\ Len(call[c].resp.data.rows) <= StatedLimit(call[c].req)

\* C25: a listing holds only pending reviews, each once, newest first, and as many
\* rows as there are pending reviews up to L; L is the integer the caller's limit
\* begins with restricted to 1..200, and 50 when no limit is supplied or the limit
\* does not begin with an integer.
C25_AtMostLeadingLimit ==
  \A c \in Clients :
    QueueListed(c)
    => LET rows == call[c].resp.data.rows
       IN  /\ Listed(rows) \subseteq PendingIds
           /\ NoRepeat(rows)
           /\ NewestFirstOrder(rows)
           /\ Len(rows) = Min2(LeadingLimit(call[c].req), Cardinality(PendingIds))

\* a queue of more than 200 pending reviews has been listed for a caller who asked
\* for 250 rows, with 200 rows, after its oldest review was approved
C25_CapReached ==
  \E c \in Clients :
    /\ QueueListed(c)
    /\ call[c].req.limit = JNum(PendingMaxLimit + 50)
    /\ Len(call[c].resp.data.rows) = PendingMaxLimit
    /\ Cardinality(PendingIds) = PendingMaxLimit
    /\ reviews[1].status = "approved"

-----------------------------------------------------------------------------
(* The answer to a submission. *)

\* C26: the 201 answer to a submission carries the id of the review the INSERT
\* stored and the status pending, and the review of that id is the pending row the
\* submission created.
C26_AnswerCarriesId ==
  [][\A c \in Clients :
       SubmitInsert(c)
       => /\ call'[c].resp.status = 201
          /\ call'[c].resp.data.status = "pending"
          /\ call'[c].resp.data.id = {Len(reviews')}
          /\ reviews'[Len(reviews')].status = "pending"]_vars

-----------------------------------------------------------------------------
(* The ranking. *)

\* the ranking has been answered for c
TopAnswered(c) == call[c].op = "top" /\ call[c].pc = "respond"

\* the approved reviews of teacher t
RankedReviews(t) ==
  {i \in 1..Len(reviews) : reviews[i].teacher_id = t /\ reviews[i].status = "approved"}

\* the teachers with at least one approved review
RankedTeachers == {t \in 1..Len(teachers) : RankedReviews(t) # {}}

OverallSum(t) == SumOver(reviews, RankedReviews(t), "overall")

OverallCount(t) == Cardinality(RankedReviews(t))

\* the average of the approved overall ratings of t, rounded to hundredths
RoundedAverage(t) == (200 * OverallSum(t) + OverallCount(t)) \div (2 * OverallCount(t))

\* the page size of the ranking: the limit clamped to 1..50, 10 by default
TopLimitOf(limit) ==
  IF limit.t = "none" \/ parseInt(limit) = {} THEN TopDefaultLimit
  ELSE Min2(TopMaxLimit, Max2(1, CHOOSE x \in parseInt(limit) : TRUE))

\* t may stand before u when teachers are ranked by average, then by count, then
\* by name
RanksByAverage(t, u) ==
  LET above == OverallSum(t) * OverallCount(u) > OverallSum(u) * OverallCount(t)
      same == OverallSum(t) * OverallCount(u) = OverallSum(u) * OverallCount(t)
  IN  \/ above
      \/ same /\ OverallCount(t) > OverallCount(u)
      \/ same /\ OverallCount(t) = OverallCount(u)
              /\ ~NameBefore(teachers[u].name, teachers[t].name)

\* t may stand before u when teachers are ranked by rounded average, then by count,
\* then by name
RanksByRoundedAverage(t, u) ==
  \/ RoundedAverage(t) > RoundedAverage(u)
  \/ RoundedAverage(t) = RoundedAverage(u) /\ OverallCount(t) > OverallCount(u)
  \/ /\ RoundedAverage(t) = RoundedAverage(u) /\ OverallCount(t) = OverallCount(u)
     /\ ~NameBefore(teachers[u].name, teachers[t].name)

\* the rows are teachers with approved reviews, each once, with the count and the
\* rounded average of their approved reviews, and as many as the page size allows
TopRowsWellFormed(c) ==
  LET rows == call[c].resp.data.rows
  IN  /\ \A k \in 1..Len(rows) :
           /\ rows[k].id \in RankedTeachers
           /\ rows[k].name = teachers[rows[k].id].name
           /\ rows[k].review_count = OverallCount(rows[k].id)
           /\ rows[k].avg_overall = RoundedAverage(rows[k].id)
      /\ \A j, k \in 1..Len(rows) : j < k => rows[j].id # rows[k].id
      /\ Len(rows) = Min2(TopLimitOf(call[c].req.limit), Cardinality(RankedTeachers))

\* C27 as stated: the ranking lists only teachers with an approved review, ranked
\* by the average of their approved overall ratings, then by the count of approved
\* reviews, then by name, cut at the page size.
C27_RankedByAverage ==
  \A c \in Clients :
    TopAnswered(c)
    => LET rows == call[c].resp.data.rows
       IN  /\ TopRowsWellFormed(c)
           /\ \A j, k \in 1..Len(rows) : j < k => RanksByAverage(rows[j].id, rows[k].id)
           /\ \A t \in RankedTeachers \ {rows[k].id : k \in 1..Len(rows)} :
                \A k \in 1..Len(rows) : RanksByAverage(rows[k].id, t)

\* C27: the ranking lists only teachers with an approved review, ranked by the
\* average of their approved overall ratings rounded to two decimals (the
\* avg_overall of the row), then by the count of approved reviews, then by name,
\* cut at the page size; no pending or rejected review counts.
C27_RankedByRoundedAverage ==
  \A c \in Clients :
    TopAnswered(c)
    => LET rows == call[c].resp.data.rows
       IN  /\ TopRowsWellFormed(c)
           /\ \A j, k \in 1..Len(rows) :
                j < k => RanksByRoundedAverage(rows[j].id, rows[k].id)
           /\ \A t \in RankedTeachers \ {rows[k].id : k \in 1..Len(rows)} :
                \A k \in 1..Len(rows) : RanksByRoundedAverage(rows[k].id, t)

\* the ranking has been answered with Bo Ray before Ann Lee after an approval made
\* his average the higher one, while another of his reviews is rejected
C27_ApprovalMovedRanking ==
  \E c \in Clients :
    /\ TopAnswered(c)
    /\ Len(call[c].resp.data.rows) = 2
    /\ call[c].resp.data.rows[1].id = 2
    /\ call[c].resp.data.rows[1].review_count = 3
    /\ reviews[2].status = "approved" /\ reviews[1].status = "pending"
    /\ reviews[4].status = "rejected"

-----------------------------------------------------------------------------
(* The count a transition reports. *)

\* the reviews whose status changes in the step
StatusChanged == {i \in 1..Len(reviews) : reviews'[i].status # reviews[i].status}

-----------------------------------------------------------------------------
(* Which links the crawl follows *)

\* C29: every URL the paginated scrape fetches after the first has the origin of the
\* start URL and the directory-results path, so a link to another host is never
\* fetched.
C29_FetchesStayOnSite ==
  [][\A c \in Clients : \A web \in RosterWebs :
       ScrapeCrawl(c, web)
       => LET fetched == scrapeSkylineStaffDirectory(web).fetched
          IN  \A k \in 2..Len(fetched) :
                /\ fetched[k].origin = buildSkylineDirectoryUrl.origin
                /\ fetched[k].path = buildSkylineDirectoryUrl.path]_vars

-----------------------------------------------------------------------------
(* Two runs at once *)

\* the run of d is about to upsert the same name as the run of c, and one of the two
\* is the scheduled run, the other the endpoint's
RunsMeet(c, d) ==
  /\ c # d
  /\ call[c].pc = "upsert" /\ call[d].pc = "upsert"
  /\ {call[c].op, call[d].op} = {"scheduled", "scrape"}
  /\ Head(call[c].todo) = Head(call[d].todo)

\* the name the run of c is about to upsert was inserted by another run after the
\* crawl of c returned
Overtaken(c) ==
  /\ call[c].pc = "upsert"
  /\ \E i \in RowsOf(teachers, Head(call[c].todo), ScrapeSchool) : i > call[c].before

\* C30: when the scheduled run and the endpoint's run upsert the same (name, school)
\* at once, the roster never holds more than one row for the pair: the first of the
\* two upserts to run inserts the row, with the time that run read as created_at,
\* and the upsert of the run it overtook keeps that row's id and created_at and
\* adds no row.
C30_ConcurrentUpsertsOneRow ==
  /\ [](\A name \in UpsertNames : Cardinality(RowsOf(teachers, name, ScrapeSchool)) <= 1)
  /\ [][\A c, d \in Clients :
          (RunsMeet(c, d) /\ ScrapeUpsert(c)
             /\ RowsOf(teachers, Head(call[c].todo), ScrapeSchool) = {})
          => /\ RowsOf(teachers', Head(call[c].todo), ScrapeSchool) = {Len(teachers) + 1}
             /\ teachers'[Len(teachers) + 1].created_at = call[c].now
             /\ Overtaken(d)']_vars
  /\ [][\A c \in Clients :
          (Overtaken(c) /\ ScrapeUpsert(c))
          => LET old == RowsOf(teachers, Head(call[c].todo), ScrapeSchool)
             IN  /\ RowsOf(teachers', Head(call[c].todo), ScrapeSchool) = old
                 /\ Cardinality(old) = 1
                 /\ Len(teachers') = Len(teachers)
                 /\ \A i \in old : teachers'[i].created_at = teachers[i].created_at]_vars

\* the endpoint's run has upserted a teacher that the scheduled run inserted while
\* the endpoint's run was under way: the one row carries the scheduled run's later
\* created_at and the endpoint's earlier updated_at
C30_OvertakenRunAnswered ==
  \E c \in Clients :
    /\ call[c].op = "scrape" /\ call[c].pc = "respond"
    /\ call[c].resp.data.upserted = {1}
    /\ Len(teachers) = 1
    /\ teachers[1].created_at = 1 /\ teachers[1].updated_at = 0

-----------------------------------------------------------------------------
(* The reconciler beside the moderation queue *)

\* the operation the request in slot c belongs to, in a step that moves the slot
StepOp(c) == IF call[c].pc = "idle" THEN call'[c].op ELSE call[c].op

\* C31: with requests interleaved in any order and the store free to fail, no step
\* of a scrape run (on schedule or on demand, ending well or in a failure) changes
\* a review row, and no step of approve, reject or list-pending changes a teacher
\* row.
C31_ReconcilerAndQueueDisjoint ==
  [][\A c \in Clients :
       call'[c] # call[c]
       => /\ StepOp(c) \in {"scheduled", "scrape"} => reviews' = reviews
          /\ StepOp(c) \in {"approve", "reject", "pending"} => teachers' = teachers]_vars

\* an approval has changed a review while a scrape run that has stored a teacher is
\* still upserting
C31_ApprovedDuringRun ==
  \E c, d \in Clients :
    /\ call[c].op = "approve" /\ call[c].pc = "respond"
    /\ call[c].resp.data.updated = {1}
    /\ call[d].pc = "upsert" /\ call[d].upserted = 1
    /\ Len(teachers) = 2
    /\ \E i \in 1..Len(reviews) : reviews[i].status = "approved"

-----------------------------------------------------------------------------
(* The summary of a run *)

\* the candidates a crawl of the web considers: the normalized texts of the name
\* elements of the pages it fetches
Considered(web) ==
  LET fetched == scrapeSkylineStaffDirectory(web).fetched
  IN  UNION {{normalizeName(FetchPage(web, fetched[k]).texts[i]) :
                i \in DOMAIN FetchPage(web, fetched[k]).texts} : k \in DOMAIN fetched}

\* C32: the summary of a run accounts for every candidate: found is the number of
\* candidates considered, the names the run goes on to upsert are those of them that
\* pass the classifier, and the rest of found are the candidates the classifier
\* rejected.
C32_SummaryCountsEveryCandidate ==
  [][\A c \in Clients : \A web \in Webs :
       (ScrapeCrawl(c, web) /\ ~scrapeSkylineStaffDirectory(web).threw)
       => LET passing == {n \in Considered(web) : looksLikePersonName(n)}
              rejected == Considered(web) \ passing
              found == IF call'[c].pc = "upsert" THEN {call'[c].found}
                       ELSE call'[c].resp.data.found
          IN  /\ Accepted(scrapeSkylineStaffDirectory(web).names) = passing
              /\ found = {Cardinality(passing) + Cardinality(rejected)}]_vars

-----------------------------------------------------------------------------
(* The Name Classifier's rules *)

Letters == {UpperChars[k] : k \in Index26} \cup {LowerChars[k] : k \in Index26}

Capitals == {UpperChars[k] : k \in Index26}

\* the number of space-separated tokens of a text with single spaces between its
\* words and none around them
TokenCount(n) == IF n = <<>> THEN 0 ELSE Cardinality({i \in 1..Len(n) : n[i] = " "}) + 1

\* the word w occurs in n at position i, whatever the case of the letters
OccursAt(w, n, i) ==
  /\ i + Len(w) - 1 <= Len(n)
  /\ \A j \in 1..Len(w) : LowerChar(n[i + j - 1]) = LowerChar(w[j])

\* the rules of the classifier, on a whitespace-normalized candidate
LengthRule(n) == Len(n) >= 5 /\ Len(n) <= 40

AlphabetRule(n) == \A i \in 1..Len(n) : n[i] \in Letters \cup {" ", "'", "-", "."}

TokenRule(n) == TokenCount(n) \in {2, 3}

DenylistRule(n) == \A k \in 1..Len(bad) : \A i \in 1..Len(n) : ~OccursAt(bad[k], n, i)

CapitalsRule(n) ==
  \A i \in 1..Len(n) : ~(i + 3 <= Len(n) /\ \A k \in 0..3 : n[i + k] \in Capitals)

EveryRule(n) ==
  LengthRule(n) /\ AlphabetRule(n) /\ TokenRule(n) /\ DenylistRule(n) /\ CapitalsRule(n)

\* C33: the classifier accepts a candidate only if the whitespace-normalized
\* candidate satisfies every rule (length 5..40, the alphabet, 2 or 3 tokens, no
\* blocked word, no run of 4 capitals), and rejects a candidate that violates any
\* one: so it answers whatever candidate the page of a run about to crawl holds; a
\* crawl takes a candidate for a name exactly when every rule holds, and every
\* stored teacher's name satisfies every rule.
C33_AcceptedSatisfiesEveryRule ==
  /\ [](call[1].pc = "crawl"
          => \A s \in RawCandidates : looksLikePersonName(s) <=> EveryRule(normalizeName(s)))
  /\ [][\A t \in ScrapedTexts :
          ScrapeCrawl(1, NameWeb(t))
          => (call'[1].pc = "upsert" <=> EveryRule(normalizeName(t)))]_vars
  /\ [](\A i \in 1..Len(teachers) : EveryRule(teachers[i].name))

\* the roster holds the four names among the scraped texts that satisfy every rule,
\* and no other
C33_FourNamesStored ==
  /\ Len(teachers) = 4
  /\ {teachers[i].name : i \in 1..4} = {normalizeName(t) : t \in {AnnLee, BoRayRaw, Dots, ONeilAnnBo}}
  /\ Cardinality({t \in ScrapedTexts : ~EveryRule(normalizeName(t))}) >= 6
  /\ \A rule \in 1..5 :
       \E s \in RawCandidates :
         LET n == normalizeName(s)
             held == <<LengthRule(n), AlphabetRule(n), TokenRule(n), DenylistRule(n),
                       CapitalsRule(n)>>
         IN  ~held[rule] /\ \A other \in (1..5) \ {rule} : held[other]

-----------------------------------------------------------------------------
(* Capitals *)

\* C34: in every Worker variant a candidate with a run of 4 or more capitals is
\* rejected by the classifier: no run upserts such a name and no stored teacher has
\* one.
C34_CapitalsNeverStored ==
  /\ [][\A c \in Clients :
          (CardsUpsert(c) \/ ScrapeUpsert(c)) => ~HasUpperRun(Head(call[c].todo))]_vars
  /\ [](\A i \in 1..Len(teachers) : ~HasUpperRun(teachers[i].name))

-----------------------------------------------------------------------------
(* Normalized names *)

\* the text has no whitespace but single spaces, and none at either end
InNormalForm(n) ==
  \A i \in 1..Len(n) :
    n[i] \in WS => /\ n[i] = " "
                   /\ i # 1 /\ i # Len(n)
                   /\ n[i + 1] \notin WS

\* C35: normalizing an accepted name again changes nothing, whatever candidate the
\* page of a run about to crawl holds, and every name the scraper returns, and so
\* every name stored, is in normal form: single spaces, no whitespace at either end.
C35_NormalizationIdempotent ==
  /\ [](call[1].pc = "crawl"
          => \A s \in RawCandidates :
               looksLikePersonName(s)
               => /\ normalizeName(normalizeName(s)) = normalizeName(s)
                  /\ InNormalForm(normalizeName(s)))
  /\ [](call[1].pc = "upsert"
          => \A k \in 1..Len(call[1].names) :
               /\ InNormalForm(call[1].names[k])
               /\ normalizeName(call[1].names[k]) = call[1].names[k])
  /\ [](\A i \in 1..Len(teachers) : InNormalForm(teachers[i].name))

\* a run took a name from a text with doubled spaces, stored in normal form, while
\* a padded text is accepted as well
C35_StoredNormalized ==
  /\ \E i \in 1..Len(teachers) : teachers[i].name = normalizeName(BoRayRaw)
  /\ ~InNormalForm(BoRayRaw)
  /\ looksLikePersonName(Padded(AnnLee)) /\ ~InNormalForm(Padded(AnnLee))

-----------------------------------------------------------------------------
(* What a transition leaves alone *)

\* C36: a transition changes nothing but the status of the one review the request
\* addresses: no review is added or removed, every review keeps its teacher_id,
\* school, ratings, would_take_again, comment and created_at, and every review
\* other than the addressed one is unchanged.
C36_OnlyAddressedStatusChanges ==
  [][\A c \in Clients :
       ModerateExec(c)
       => /\ Len(reviews') = Len(reviews)
          /\ \A i \in 1..Len(reviews) :
               /\ [reviews'[i] EXCEPT !.status = reviews[i].status] = reviews[i]
               /\ i \notin parseInt(call[c].req.id) => reviews'[i] = reviews[i]]_vars

-----------------------------------------------------------------------------
(* The published count *)

\* the review_count GET /api/teacher?id= answers for the id, were it asked now
PublishedCount(rs, idText) ==
  CHOOSE n \in SelectTeacherStats(rs, idText).review_count : TRUE

\* the step is an approve that reports updated 1 and changes a review of the teacher
ApprovesReviewOf(idText) ==
  \E c \in Clients :
    /\ ModerateExec(c) /\ call[c].op = "approve"
    /\ call'[c].resp.data.updated = {1}
    /\ \E i \in StatusChanged : reviews[i].teacher_id \in SqlInt(idText)

\* C37: for every teacher, the review_count GET /teacher reports never decreases:
\* a step that is an approve reporting updated 1 for a review of the teacher raises
\* it by exactly 1, and every other step (submit, reject, scrape, reads, an approve
\* that reports 0 or is for another teacher) leaves it as it was; the count an
\* answered GET /teacher carries is that count.
C37_PublishedCountMonotone ==
  /\ [][\A idText \in TeacherIdTexts \ {<<>>} :
          PublishedCount(reviews', idText)
            = PublishedCount(reviews, idText) + (IF ApprovesReviewOf(idText) THEN 1 ELSE 0)]_vars
  /\ [](\A c \in Clients : \A t \in 1..Len(teachers) :
          TeacherAnswered(c, t)
          => \E idText \in TeacherIdTexts :
               /\ t \in SqlInt(idText)
               /\ call[c].resp.data.stats.review_count = {PublishedCount(reviews, idText)})

\* GET /teacher reports one review for a teacher with one review approved and one
\* rejected
C37_OneCountedOneRejected ==
  \E c \in Clients : \E t \in 1..Len(teachers) :
    /\ TeacherAnswered(c, t)
    /\ call[c].resp.data.stats.review_count = {1}
    /\ \E i, j \in 1..Len(reviews) :
         /\ reviews[i].teacher_id = t /\ reviews[i].status = "approved"
         /\ reviews[j].teacher_id = t /\ reviews[j].status = "rejected"

-----------------------------------------------------------------------------
(* An id that is no integer *)

\* a transition has arrived in slot c whose id does not parse as an integer
NoIntegerId(c) ==
  call[c].op \in {"approve", "reject"} /\ call[c].pc # "idle" /\ parseInt(call[c].req.id) = {}

\* C38: a transition whose id does not parse as an integer (missing, empty, a word)
\* is answered 400 with a JSON body of ok:false when its token is correct, and 401
\* when it is not: the token is checked first; either way the call reaches no
\* statement and changes no review.
C38_InvalidIdIs400 ==
  /\ [](\A c \in Clients :
          NoIntegerId(c)
          => /\ call[c].pc = "respond"
             /\ IF NotTrimmedEqual(c) THEN call[c].resp.status = 401
                ELSE /\ call[c].resp.status = 400
                     /\ call[c].resp.type = "json"
                     /\ call[c].resp.data.ok = {FALSE}
                     /\ call[c].resp.data.updated = {})
  /\ [][\A c \in Clients :
          (call'[c] # call[c] /\ (NoIntegerId(c) \/ NoIntegerId(c)'))
          => reviews' = reviews]_vars

\* with a review pending, a transition with the secret and an id that is a word has
\* been answered 400
C38_WordIdRefused ==
  \E c \in Clients :
    /\ NoIntegerId(c) /\ ~NotTrimmedEqual(c)
    /\ call[c].req.id = JStr(<<"a", "b", "c">>)
    /\ call[c].resp.status = 400
    /\ \E r \in 1..Len(reviews) : reviews[r].status = "pending"

-----------------------------------------------------------------------------
(* Tokens without letters *)

\* every space-separated token of the text holds a letter
EveryTokenHasLetter(n) ==
  \A k \in 1..Len(NameParts(n)) :
    \E i \in 1..Len(NameParts(n)[k]) : NameParts(n)[k][i] \in Letters

\* C39: every text the classifier accepts has a letter in each of its tokens,
\* whatever candidate the page of a run about to crawl holds, so no stored
\* teacher's name has a token made of periods, hyphens and apostrophes alone.
C39_AcceptedTokensHaveLetters ==
  /\ [](call[1].pc = "crawl"
          => \A s \in RawCandidates :
               looksLikePersonName(s) => EveryTokenHasLetter(normalizeName(s)))
  /\ [](\A i \in 1..Len(teachers) : EveryTokenHasLetter(teachers[i].name))

====
